---- MODULE Spec2Model ----
(***************************************************************************)
(* A model of the canvasPlayground rendering core: the PixelBuffer and its *)
(* blending primitives, the rasterizers, the TextCache (glyph LRU) and the *)
(* ViewportManager's world<->canvas mapping.                               *)
(*                                                                         *)
(* Numbers.  TLC's integers are 32-bit, so a JavaScript number that may be *)
(* fractional or beyond the int32 range is written JS(k, h) and stands for *)
(* k*2^32 + h/2 (h counts halves, k and h never of opposite sign).  The    *)
(* 32-bit conversions of the language (x | 0, x >>> 0) are computed on     *)
(* that representation: the k*2^32 part vanishes modulo 2^32, the fraction *)
(* is truncated towards zero.  A uint32 is a pair of 16-bit limbs.         *)
(* Channel arithmetic of blendRGBA is carried out exactly, as fractions.   *)
(***************************************************************************)
EXTENDS Integers, Sequences, FiniteSets, TLC

VARIABLES
    width, height, pixels,      \* PixelBuffer: this.width, this.height, this.pixels
    last, prev,                 \* history: the last buffer operation, the bytes before it
    capacity, map,              \* TextCache: this.capacity, this.map (insertion order)
    hung,                       \* a TextCache call that never returned
    stamp, how, clast,          \* history: time and kind of each key's last touch, last call
    rev,                        \* ViewportManager: which revision of the class
    worldBounds, viewport, preserveAspect,
    xTicks, yTicks,             \* this.xTicks, this.yTicks (rev 2)
    vlast,                      \* history: the last call on the ViewportManager
    graph,                      \* Graph: its fields (none before it is constructed)
    issued,                     \* history: what the last Graph.draw issued to app
    rrev,                       \* CanvasRenderer / DynamicCanvasRenderer: which revision
    container, dpr,             \* the page: containerDiv's rect, window.devicePixelRatio
    canvasDim,                  \* the canvas element: <<width, height>>
    scene,                      \* Scene: its drawables, in drawing order
    rafId, timer,               \* SceneManager._rafId; the debounce timer of its listener
    pending, nextId,            \* the browser: requested animation frames, the next handle
    marks, shown,               \* history: clear/draw since the last resize, the frame shown
    stopped, afterStop,         \* history: stopLoop has returned, what ran since
    raster,                     \* history: how often each text triple was rasterized
    slast,                      \* history: the last handler or call of the page
    line,                       \* a call of rawLine: its locals and where it stands
    nops                        \* number of operations applied so far

bufVars == <<width, height, pixels, last, prev>>
cacheVars == <<capacity, map, hung, stamp, how, clast>>
viewVars == <<rev, worldBounds, viewport, preserveAspect, xTicks, yTicks, vlast,
             graph, issued>>
sceneVars == <<rrev, container, dpr, canvasDim, scene, rafId, timer, pending, nextId,
              marks, shown, stopped, afterStop, raster, slast>>
vars == <<width, height, pixels, last, prev, capacity, map, hung, stamp, how, clast,
          rev, worldBounds, viewport, preserveAspect, xTicks, yTicks, vlast,
          graph, issued, rrev, container, dpr, canvasDim, scene, rafId, timer,
          pending, nextId, marks, shown, stopped, afterStop, raster, slast, line, nops>>

----------------------------------------------------------------------------
(* Bounds of the model *)

MaxDim == 2          \* largest buffer width and height
MaxOps == 2          \* operations applied after construction
RasterDim == 4       \* side of the buffer the rasterizers draw into
MaxCap == 2          \* largest TextCache capacity
MaxCacheOps == 4     \* TextCache calls after construction
MaxTicks == 5        \* largest number of ticks asked for
MaxFrames == 4       \* animation frames requested on a page
MaxSteps == 6        \* iterations followed in one call of rawLine
MaxTextOps == 3      \* drawText calls and resizes of one renderer

----------------------------------------------------------------------------
(* JavaScript numbers and 32-bit conversions *)

Max(a, b) == IF a >= b THEN a ELSE b
Min(a, b) == IF a <= b THEN a ELSE b

JS(k, h) == [k |-> k, h |-> h]
Num(n) == JS(0, 2 * n)

\* truncation towards zero of h halves
TruncH(h) == IF h >= 0 THEN h \div 2 ELSE -((-h) \div 2)

\* x | 0 : ToInt32; k*2^32 is 0 modulo 2^32 and |trunc(h/2)| < 2^31
ToInt32(n) == TruncH(n.h)

\* x >>> 0 : ToUint32, as <<high 16 bits, low 16 bits>>
ToUint32(n) ==
    LET t == TruncH(n.h)
    IN  IF t >= 0 THEN <<t \div 65536, t % 65536>>
                  ELSE <<(t \div 65536) + 65536, t % 65536>>

U32GE(a, b) == a[1] > b[1] \/ (a[1] = b[1] /\ a[2] >= b[2])

\* the numeric order of JS(k,h) against an integer n
NumLT(x, n) == x.k < 0 \/ (x.k = 0 /\ x.h < 2 * n)
NumGE(x, n) == ~NumLT(x, n)

\* v << s on int32, v >= 0
Shl(v, s) ==
    LET m == v % (2 ^ (32 - s))
    IN  IF m >= 2 ^ (31 - s) THEN (m - 2 ^ (32 - s)) * (2 ^ s) ELSE m * (2 ^ s)

\* a | b on int32 (two's complement; \div and % are floored)
RECURSIVE BitOr(_, _)
BitOr(a, b) ==
    IF a = 0 THEN b
    ELSE IF b = 0 THEN a
    ELSE IF a = -1 \/ b = -1 THEN -1
    ELSE 2 * BitOr(a \div 2, b \div 2) + (IF a % 2 = 1 \/ b % 2 = 1 THEN 1 ELSE 0)

\* a store into a Uint8ClampedArray element
Clamp8(v) == IF v < 0 THEN 0 ELSE IF v > 255 THEN 255 ELSE v

----------------------------------------------------------------------------
(* color.ts *)

NAMED_black == <<0, 0, 0, 255>>
Null == <<>>

packABGR_RGBA(r, g, b, a) == BitOr(BitOr(BitOr(Shl(r, 24), Shl(g, 16)), Shl(b, 8)), a)

packABGR(r, g, b, a) == BitOr(BitOr(BitOr(Shl(a, 24), Shl(b, 16)), Shl(g, 8)), r)

\* byte k (0 = lowest address) of a little-endian 32-bit word
WordByte(word, k) == (word \div (256 ^ k)) % 256

\* Porter-Duff source-over on straight alpha.  With dna = da/255, sna = sa/255:
\*   outA = sna + dna*(1 - sna) = outN / 255^2
\*   r    = (sr*sna + dr*dna*(1 - sna)) / outA = (sr*sa*255 + dr*da*(255-sa)) / outN
\* Each channel is returned as the fraction <<numerator, denominator>>.
blendRGBA(dr, dg, db, da, sr, sg, sb, sa) ==
    LET outN == sa * 255 + da * (255 - sa)
    IN  IF outN <= 0 THEN << <<0, 1>>, <<0, 1>>, <<0, 1>>, <<0, 1>> >>
        ELSE << <<sr * sa * 255 + dr * da * (255 - sa), outN>>,
                <<sg * sa * 255 + dg * da * (255 - sa), outN>>,
                <<sb * sa * 255 + db * da * (255 - sa), outN>>,
                <<outN, 255>> >>

\* (v + 0.5) | 0 for a fraction v = q[1]/q[2] >= 0
RoundHalfUp(q) == (2 * q[1] + q[2]) \div (2 * q[2])

----------------------------------------------------------------------------
(* pixelbuffer.ts *)

\* new ImageData(w, h).data : w*h*4 zero bytes
ImageDataBytes(w, h) == [i \in 1..(w * h * 4) |-> 0]

DimOf_raw(req) == ToInt32(req)

\* Math.max(1, width | 0)
DimOf(req) == Max(1, ToInt32(req))

\* this.pixels[i] = v : a typed-array store; out-of-range indices are ignored
Store(p, i, v) == IF i >= 0 /\ i < Len(p) THEN [p EXCEPT ![i + 1] = Clamp8(v)] ELSE p

\* this.pixels[i] : undefined reads as 0 in the arithmetic that follows
Load(p, i) == IF i >= 0 /\ i < Len(p) THEN p[i + 1] ELSE 0

PixelAt(p, w, x, y) ==
    LET i == (y * w + x) * 4
    IN  <<Load(p, i), Load(p, i + 1), Load(p, i + 2), Load(p, i + 3)>>

\* private index(x, y)
index(w, x, y) == (y * w + x) * 4

\* the guard of putPixel / putPixelBlend
OutOfRange(w, h, x, y) ==
    \/ U32GE(ToUint32(x), ToUint32(Num(w)))
    \/ U32GE(ToUint32(y), ToUint32(Num(h)))

\* clear(color): c is parseColor(color), Null when the string does not parse
clear(p, c) ==
    LET col == IF c = Null THEN NAMED_black ELSE c
        packed == packABGR(col[1], col[2], col[3], col[4])
    IN  [i \in 1..Len(p) |-> WordByte(packed, (i - 1) % 4)]

putPixel(p, w, h, x, y, c) ==
    IF OutOfRange(w, h, x, y) THEN p
    ELSE LET i == index(w, ToInt32(x), ToInt32(y))
         IN  Store(Store(Store(Store(p, i, c[1]), i + 1, c[2]), i + 2, c[3]), i + 3, c[4])

\* the blend-and-store shared by putPixelBlend and the rasterizers
BlendAt(p, i, c) ==
    LET o == blendRGBA(Load(p, i), Load(p, i + 1), Load(p, i + 2), Load(p, i + 3),
                       c[1], c[2], c[3], c[4])
    IN  Store(Store(Store(Store(p, i, RoundHalfUp(o[1])), i + 1, RoundHalfUp(o[2])),
                    i + 2, RoundHalfUp(o[3])), i + 3, RoundHalfUp(o[4]))

putPixelBlend(p, w, h, x, y, c) ==
    IF OutOfRange(w, h, x, y) THEN p
    ELSE BlendAt(p, index(w, ToInt32(x), ToInt32(y)), c)

\* an ImageData handed to blit
Image(w, h, data) == [h |-> h, w |-> w, data |-> data]

\* blit(srcImageData, dx, dy): the doubly nested loop writes each destination
\* pixel of the clipped rectangle once, from a different array, so the result
\* is given per destination byte
blit(p, w, h, src, dxn, dyn) ==
    LET sw == src.w
        sh == src.h
        dx == ToInt32(dxn)
        dy == ToInt32(dyn)
        startX == Max(0, dx)
        startY == Max(0, dy)
        endX == Min(w, dx + sw)
        endY == Min(h, dy + sh)
    IN  [i \in 1..Len(p) |->
            LET q  == (i - 1) \div 4
                ch == (i - 1) % 4
                tx == q % w
                ty == q \div w
                sx == tx - dx
                sy == ty - dy
                sIdx == (sy * sw + sx) * 4
                sa == Load(src.data, sIdx + 3)
            IN  IF tx >= startX /\ tx < endX /\ ty >= startY /\ ty < endY
                THEN (2 * (Load(src.data, sIdx + ch) * sa + p[i] * (255 - sa)) + 255) \div 510
                ELSE p[i]]

----------------------------------------------------------------------------
(* raster.ts.  A point is <<x, y>> in halves (2*x, 2*y), so that fractional *)
(* endpoints and centres can be given; pixel positions are integers.        *)

RoundH(h) == (h + 1) \div 2          \* Math.round
FloorH(h) == h \div 2                \* Math.floor
CeilH(h) == -((-h) \div 2)           \* Math.ceil
Abs(a) == IF a < 0 THEN -a ELSE a

\* v << 1 on int32, for any int32 v
Shl1(v) == ((v % (2 ^ 30)) - ((v \div (2 ^ 30)) % 2) * (2 ^ 30)) * 2

\* a + b modulo 2^32, as int32
Add32(a, b) ==
    IF a > 0 /\ b > 0 /\ a > 2147483647 - b
    THEN (a - 2147483647 - 1) + (b - 2147483647 - 1)
    ELSE IF a < 0 /\ b < 0 /\ a < (-2147483647 - 1) - b
    THEN (a + 2147483647 + 1) + (b + 2147483647 + 1)
    ELSE a + b

\* the positions the loop of rawLine visits, in order
RECURSIVE bresenham(_, _, _, _, _, _, _, _, _)
bresenham(x0, y0, x1, y1, dx, dy, sx, sy, err) ==
    IF x0 = x1 /\ y0 = y1 THEN << <<x0, y0>> >>
    ELSE LET e2 == Shl1(err)
             stepX == e2 > -dy
             err1 == IF stepX THEN err - dy ELSE err
             xn == IF stepX THEN x0 + sx ELSE x0
             stepY == e2 < dx
             err2 == IF stepY THEN err1 + dx ELSE err1
             yn == IF stepY THEN y0 + sy ELSE y0
         IN  << <<x0, y0>> >> \o bresenham(xn, yn, x1, y1, dx, dy, sx, sy, err2)

linePixels(p0, p1) ==
    LET x0 == RoundH(p0[1])
        y0 == RoundH(p0[2])
        x1 == RoundH(p1[1])
        y1 == RoundH(p1[2])
        dx == Abs(x1 - x0)
        dy == Abs(y1 - y0)
        sx == IF x0 < x1 THEN 1 ELSE -1
        sy == IF y0 < y1 THEN 1 ELSE -1
    IN  bresenham(x0, y0, x1, y1, dx, dy, sx, sy, dx - dy)

\* The folds below test Len(q) < 0 (never true) only to have each intermediate
\* buffer computed before the next iteration starts.
RECURSIVE blendSeq(_, _, _, _, _)
blendSeq(p, w, h, ps, c) ==
    IF ps = <<>> THEN p
    ELSE LET q == putPixelBlend(p, w, h, Num(Head(ps)[1]), Num(Head(ps)[2]), c)
         IN  IF Len(q) < 0 THEN q ELSE blendSeq(q, w, h, Tail(ps), c)

rawLine(p, w, h, p0, p1, c) == blendSeq(p, w, h, linePixels(p0, p1), c)

\* rawLine one iteration at a time.  The locals: err is kept as its int32
\* value, which is all that err << 1 reads; n counts the calls of
\* putPixelBlend; pc is "loop" before an iteration and "done" after the break.
LineLocals(x0, y0, x1, y1, dx, dy, sx, sy, err, n, pc) ==
    [n |-> n, dx |-> dx, dy |-> dy, sx |-> sx, sy |-> sy, x0 |-> x0,
     y0 |-> y0, x1 |-> x1, y1 |-> y1, err |-> err, pc |-> pc]
NoLine == LineLocals(0, 0, 0, 0, 0, 0, 0, 0, 0, 0, "idle")

\* lines 11-16: the rounding and the setup
rawLine_enter(p0, p1) ==
    LET x0 == RoundH(p0[1])
        y0 == RoundH(p0[2])
        x1 == RoundH(p1[1])
        y1 == RoundH(p1[2])
        dx == Abs(x1 - x0)
        dy == Abs(y1 - y0)
    IN  LineLocals(x0, y0, x1, y1, dx, dy,
                   IF x0 < x1 THEN 1 ELSE -1, IF y0 < y1 THEN 1 ELSE -1, dx - dy, 0, "loop")

\* lines 19-23, after the putPixelBlend of line 19
rawLine_iterate(st) ==
    IF st.x0 = st.x1 /\ st.y0 = st.y1 THEN [st EXCEPT !.n = st.n + 1, !.pc = "done"]
    ELSE LET e2 == Shl1(st.err)
             stepX == e2 > -st.dy
             err1 == IF stepX THEN Add32(st.err, -st.dy) ELSE st.err
             stepY == e2 < st.dx
         IN  [st EXCEPT !.x0 = IF stepX THEN st.x0 + st.sx ELSE st.x0,
                        !.y0 = IF stepY THEN st.y0 + st.sy ELSE st.y0,
                        !.err = IF stepY THEN Add32(err1, st.dx) ELSE err1,
                        !.n = st.n + 1]

Sgn(a) == IF a < 0 THEN -1 ELSE IF a > 0 THEN 1 ELSE 0

\* the lines strokeShape draws for the segment p0 -> p1.  For width > 1 the
\* unit normal needs d.len(); it is exact for axis-parallel and zero-length
\* segments, the ones drawn here with width > 1.
segmentLines(p0, p1, wd) ==
    IF wd <= 1 THEN << <<p0, p1>> >>
    ELSE LET ux == Sgn(p1[1] - p0[1])
             uy == Sgn(p1[2] - p0[2])
             half == wd \div 2
         IN  [j \in 1..(2 * half + 1) |->
                 LET o == j - 1 - half
                 IN  << <<p0[1] - 2 * uy * o, p0[2] + 2 * ux * o>>,
                        <<p1[1] - 2 * uy * o, p1[2] + 2 * ux * o>> >>]

RECURSIVE drawLines(_, _, _, _, _)
drawLines(p, w, h, ls, c) ==
    IF ls = <<>> THEN p
    ELSE LET q == rawLine(p, w, h, Head(ls)[1], Head(ls)[2], c)
         IN  IF Len(q) < 0 THEN q ELSE drawLines(q, w, h, Tail(ls), c)

RECURSIVE strokeFrom(_, _, _, _, _, _, _)
strokeFrom(p, w, h, pts, i, c, wd) ==
    IF i > Len(pts) THEN p
    ELSE LET q == drawLines(p, w, h, segmentLines(pts[i], pts[(i % Len(pts)) + 1], wd), c)
         IN  IF Len(q) < 0 THEN q ELSE strokeFrom(q, w, h, pts, i + 1, c, wd)

\* for (i = 0; i < points.length; i++) : segment i -> (i + 1) % length
strokeShape(p, w, h, pts, c, wd) == strokeFrom(p, w, h, pts, 1, c, wd)

drawLine(p, w, h, p0, p1, c, wd) == strokeShape(p, w, h, <<p0, p1>>, c, wd)

RECURSIVE blendIdx(_, _, _)
blendIdx(p, idxs, c) ==
    IF idxs = {} THEN p
    ELSE LET i == CHOOSE j \in idxs : \A k \in idxs : j <= k
             q == BlendAt(p, i, c)
         IN  IF Len(q) < 0 THEN q ELSE blendIdx(q, idxs \ {i}, c)

\* fillCircle(app, c, r, color): ctr in halves, r in halves
fillCircle(p, w, h, ctr, r, c) ==
    LET r2 == r * r
        xMin == Max(0, FloorH(ctr[1]))
        xMax == Min(w - 1, CeilH(ctr[1]))
        yMin == Max(0, FloorH(ctr[2]))
        yMax == Min(h - 1, CeilH(ctr[2]))
        hit == {<<x, y>> \in (xMin..xMax) \X (yMin..yMax) :
                   (2 * x - ctr[1]) * (2 * x - ctr[1])
                   + (2 * y - ctr[2]) * (2 * y - ctr[2]) <= r2}
    IN  blendIdx(p, {(q[2] * w + q[1]) * 4 : q \in hit}, c)

\* fractions <<n, d>>, d > 0
FracLE(a, b) == a[1] * b[2] <= b[1] * a[2]
FracFloor(a) == a[1] \div a[2]
FracCeil(a) == -((-a[1]) \div a[2])

RECURSIVE insertSorted(_, _)
insertSorted(s, v) ==
    IF s = <<>> THEN <<v>>
    ELSE IF FracLE(v, Head(s)) THEN <<v>> \o s
    ELSE <<Head(s)>> \o insertSorted(Tail(s), v)

RECURSIVE sortFracs(_)
sortFracs(s) == IF s = <<>> THEN <<>> ELSE insertSorted(sortFracs(Tail(s)), Head(s))

\* the edge list of fillPolygon: horizontals skipped
polyEdges(pts) ==
    LET n == Len(pts)
        edge(i) ==
            LET p1 == pts[i]
                p2 == pts[(i % n) + 1]
            IN  [x |-> IF p1[2] < p2[2] THEN p1[1] ELSE p2[1],
                 ymin |-> Min(p1[2], p2[2]), ymax |-> Max(p1[2], p2[2]),
                 sn |-> p2[1] - p1[1], sd |-> p2[2] - p1[2]]
    IN  SelectSeq([i \in 1..n |-> edge(i)], LAMBDA e : e.sd # 0)

\* e.x + (y - e.ymin) * e.invSlope on scanline y, as a fraction
crossing(e, y) ==
    LET n == e.x * e.sd + (2 * y - e.ymin) * e.sn
        d == 2 * e.sd
    IN  IF d > 0 THEN <<n, d>> ELSE <<-n, -d>>

scanCrossings(es, y) ==
    LET act == SelectSeq(es, LAMBDA e : 2 * y >= e.ymin /\ 2 * y < e.ymax)
    IN  sortFracs([i \in 1..Len(act) |-> crossing(act[i], y)])

RECURSIVE blendSpans(_, _, _, _)
blendSpans(p, w, spans, c) ==
    IF spans = <<>> THEN p
    ELSE LET r == blendIdx(p, {(q[2] * w + q[1]) * 4 : q \in Head(spans)}, c)
         IN  IF Len(r) < 0 THEN r ELSE blendSpans(r, w, Tail(spans), c)

\* spans that take the whole scanline
scanSpans_fullRow(cs, w, y) ==
    [j \in 1..((Len(cs) + 1) \div 2) |-> {<<x, y>> : x \in 0..(w - 1)}]

\* the spans of one scanline, one set of pixels per crossing pair, in order:
\* floor(c[k]) .. ceil(c[k+1]), both inclusive; a missing c[k+1] (odd count)
\* is Math.ceil(undefined) | 0 = 0
scanSpans(cs, w, y) ==
    [j \in 1..((Len(cs) + 1) \div 2) |->
        LET k == 2 * j - 1
            xStart == Max(0, FracFloor(cs[k]))
            xEnd == Min(w - 1, IF k + 1 <= Len(cs) THEN FracCeil(cs[k + 1]) ELSE 0)
        IN  {<<x, y>> : x \in xStart..xEnd}]

RECURSIVE fillRows(_, _, _, _, _, _)
fillRows(p, w, es, y, maxY, c) ==
    IF y > maxY THEN p
    ELSE LET q == blendSpans(p, w, scanSpans(scanCrossings(es, y), w, y), c)
         IN  IF Len(q) < 0 THEN q ELSE fillRows(q, w, es, y + 1, maxY, c)

fillPolygon(p, w, h, pts, c) ==
    IF Len(pts) < 3 THEN p
    ELSE LET es == polyEdges(pts)
             ys == {es[i].ymin : i \in 1..Len(es)} \cup {es[i].ymax : i \in 1..Len(es)}
             lo == CHOOSE v \in ys : \A u \in ys : v <= u
             hi == CHOOSE v \in ys : \A u \in ys : v >= u
             \* with no edge minY = Infinity, maxY = -Infinity and both | 0 give 0
             minY == IF es = <<>> THEN 0 ELSE Max(0, FloorH(lo))
             maxY == IF es = <<>> THEN Min(h - 1, 0) ELSE Min(h - 1, CeilH(hi))
         IN  fillRows(p, w, es, minY, maxY, c)

----------------------------------------------------------------------------
(* textCache.ts (in renderer.ts).  The Map is the sequence of its entries  *)
(* <<key, value>> in insertion order, which is the order Map.keys() yields. *)

mapKeys(m) == {m[i][1] : i \in 1..Len(m)}
mapHas(m, k) == k \in mapKeys(m)
mapGet(m, k) == IF mapHas(m, k) THEN (CHOOSE e \in {m[i] : i \in 1..Len(m)} : e[1] = k)[2]
                ELSE Null
mapDelete(m, k) == SelectSeq(m, LAMBDA e : e[1] # k)
\* Map.set: a present key keeps its position, a new one goes last
mapSet(m, k, v) ==
    IF mapHas(m, k) THEN [i \in 1..Len(m) |-> IF m[i][1] = k THEN <<k, v>> ELSE m[i]]
    ELSE Append(m, <<k, v>>)

\* constructor: this.capacity |= 0
TextCache_capacity(req) == ToInt32(req)

TextCache_get_noPromote(m, k) == [map |-> m, ret |-> mapGet(m, k)]

\* get(key): a hit is deleted and set again, which moves it to the end
TextCache_get(m, k) ==
    LET v == mapGet(m, k)
    IN  [map |-> IF v # Null THEN mapSet(mapDelete(m, k), k, v) ELSE m, ret |-> v]

evict_none(m, cap) == [map |-> m, hung |-> FALSE]

\* while (this.map.size > this.capacity) delete the first key; on an empty map
\* keys().next().value is undefined, nothing is deleted and the loop spins
RECURSIVE evict(_, _)
evict(m, cap) ==
    IF Len(m) > cap
    THEN IF m = <<>> THEN [map |-> m, hung |-> TRUE] ELSE evict(Tail(m), cap)
    ELSE [map |-> m, hung |-> FALSE]

TextCache_set(m, cap, k, v) ==
    evict(mapSet(IF mapHas(m, k) THEN mapDelete(m, k) ELSE m, k, v), cap)

TextCache_clear(m) == <<>>

----------------------------------------------------------------------------
(* Arithmetic for the viewport.  A number is <<n, d, e>>, the value         *)
(* n/d * 10^e, with n/d in lowest terms, d > 0 and prime to 10, and n not   *)
(* a multiple of 10, so that every value has one representation; zero is    *)
(* <<0, 1, 0>>, and <<1, 0, 0>>, <<-1, 0, 0>>, <<0, 0, 0>> are Infinity,     *)
(* -Infinity and NaN.  (Negative zero is not distinguished from zero.)      *)
(* R-operators compute exactly; DAdd and DSub are the sum and difference of *)
(* doubles as far as the loss of a much smaller term goes.                  *)

RECURSIVE GCD(_, _)
GCD(a, b) == IF b = 0 THEN a ELSE GCD(b, a % b)

RECURSIVE IntPow10(_)
IntPow10(k) == IF k <= 0 THEN 1 ELSE 10 * IntPow10(k - 1)

\* n * 10^e with the factors 10 of n moved into the exponent
RECURSIVE Strip10(_, _, _)
Strip10(n, d, e) ==
    IF n % 10 = 0 THEN Strip10(n \div 10, d, e + 1) ELSE <<n, d, e>>

\* the factors 2 and 5 of d moved into the exponent
RECURSIVE StripDen(_, _, _)
StripDen(n, d, e) ==
    IF d % 10 = 0 THEN StripDen(n, d \div 10, e - 1)
    ELSE IF d % 2 = 0 THEN StripDen(n * 5, d \div 2, e - 1)
    ELSE IF d % 5 = 0 THEN StripDen(n * 2, d \div 5, e - 1)
    ELSE Strip10(n, d, e)

NaN == <<0, 0, 0>>
NormE(n, d, e) ==
    IF d = 0 THEN <<Sgn(n), 0, 0>>
    ELSE IF n = 0 THEN <<0, 1, 0>>
    ELSE LET g == GCD(Abs(n), Abs(d))
         IN  IF d < 0 THEN StripDen((-n) \div g, (-d) \div g, e)
             ELSE StripDen(n \div g, d \div g, e)
Norm(n, d) == NormE(n, d, 0)
Q(n) == NormE(n, 1, 0)
Pow10(k) == <<1, 1, k>>
IsFinite(a) == a[2] # 0
IsNaN(a) == a = NaN
RNeg(a) == <<-a[1], a[2], a[3]>>
RAbs(a) == <<Abs(a[1]), a[2], a[3]>>
RAdd(a, b) ==
    IF ~IsFinite(a) /\ ~IsFinite(b) THEN (IF a = b THEN a ELSE NaN)
    ELSE IF ~IsFinite(a) THEN a
    ELSE IF ~IsFinite(b) THEN b
    ELSE IF a[1] = 0 THEN b
    ELSE IF b[1] = 0 THEN a
    ELSE LET e == Min(a[3], b[3])
         IN  NormE(a[1] * IntPow10(a[3] - e) * b[2] + b[1] * IntPow10(b[3] - e) * a[2],
                   a[2] * b[2], e)
RSub(a, b) == RAdd(a, RNeg(b))
RMul(a, b) ==
    LET g1 == GCD(Abs(a[1]), Abs(b[2]))
        g2 == GCD(Abs(b[1]), Abs(a[2]))
        h1 == IF g1 = 0 THEN 1 ELSE g1
        h2 == IF g2 = 0 THEN 1 ELSE g2
    IN  NormE((a[1] \div h1) * (b[1] \div h2), (a[2] \div h2) * (b[2] \div h1), a[3] + b[3])
RInv(a) == NormE(a[2], a[1], -a[3])
RDiv(a, b) == RMul(a, RInv(b))

\* floor(log10(n/d)) for n >= d > 0, and for 0 < n < d
RECURSIVE LogGe1(_, _)
LogGe1(n, d) == IF n \div 10 >= d THEN 1 + LogGe1(n \div 10, d) ELSE 0
RECURSIVE LogLt1(_, _)
LogLt1(n, d) ==
    LET d1 == (d + 9) \div 10 IN IF n >= d1 THEN -1 ELSE LogLt1(n, d1) - 1
\* Math.floor(Math.log10(a)) for a finite a > 0
FloorLog10(a) == a[3] + (IF a[1] >= a[2] THEN LogGe1(a[1], a[2]) ELSE LogLt1(a[1], a[2]))

\* a < b for finite a, b > 0
MagLT(a, b) ==
    IF FloorLog10(a) # FloorLog10(b) THEN FloorLog10(a) < FloorLog10(b)
    ELSE LET e == Min(a[3], b[3])
         IN  a[1] * IntPow10(a[3] - e) * b[2] < b[1] * IntPow10(b[3] - e) * a[2]
RLT(a, b) ==
    IF IsNaN(a) \/ IsNaN(b) THEN FALSE
    ELSE IF ~IsFinite(a) \/ ~IsFinite(b) THEN
        IF ~IsFinite(a) /\ ~IsFinite(b) THEN a[1] < b[1]
        ELSE IF ~IsFinite(a) THEN a[1] < 0
        ELSE b[1] > 0
    ELSE IF Sgn(a[1]) # Sgn(b[1]) THEN Sgn(a[1]) < Sgn(b[1])
    ELSE IF a[1] = 0 THEN FALSE
    ELSE IF a[1] > 0 THEN MagLT(a, b)
    ELSE MagLT(RAbs(b), RAbs(a))
RGT(a, b) == RLT(b, a)
RLE(a, b) == a = b \/ RLT(a, b)
\* Math.min, Math.max
RMin(a, b) == IF IsNaN(a) \/ IsNaN(b) THEN NaN ELSE IF RLT(b, a) THEN b ELSE a
RMax(a, b) == IF IsNaN(a) \/ IsNaN(b) THEN NaN ELSE IF RLT(a, b) THEN b ELSE a

\* the integer floor(a) for a finite a >= 0; n < 2^31 < 10^10
IntFloor(a) ==
    IF a[3] >= 0 THEN (a[1] * IntPow10(a[3])) \div a[2]
    ELSE IF a[3] < -9 THEN 0
    ELSE LET p == IntPow10(-a[3]) IN (a[1] \div p) \div a[2]
\* Math.floor, Math.ceil
RFloor(a) ==
    IF ~IsFinite(a) THEN a
    ELSE IF a[1] >= 0 THEN Q(IntFloor(a))
    ELSE LET below(f) == IF f = RAbs(a) THEN RNeg(f) ELSE RNeg(RAdd(f, Q(1)))
         IN  below(Q(IntFloor(RAbs(a))))
RCeil(a) == RNeg(RFloor(RNeg(a)))

\* +x.toFixed(k): x rounded to k decimals, a tie away from zero
ToFixed(a, k) ==
    IF ~IsFinite(a) \/ (a[2] = 1 /\ a[3] >= -k) THEN a
    ELSE LET m == IntFloor(RAdd(<<Abs(a[1]), a[2], a[3] + k>>, Norm(1, 2)))
         IN  NormE(Sgn(a[1]) * m, 1, -k)

\* A double carries 53 bits: in a sum, a term more than 10^17 times smaller
\* than the other is lost in the rounding.
Absorbs(a, b) ==
    /\ IsFinite(a) /\ IsFinite(b) /\ a[1] # 0 /\ b[1] # 0
    /\ FloorLog10(RAbs(a)) - FloorLog10(RAbs(b)) >= 18
DAdd(a, b) ==
    IF Absorbs(a, b) THEN a ELSE IF Absorbs(b, a) THEN b ELSE RAdd(a, b)
DSub(a, b) == DAdd(a, RNeg(b))
V2(x, y) == <<x, y>>

----------------------------------------------------------------------------
(* color.ts: parseColor.  A string is the sequence of its characters; the  *)
(* channels of the result are numbers <<n, d, e>>, so that NaN can appear. *)

UpperCase == <<"A", "B", "C", "D", "E", "F", "G", "H", "I", "J", "K", "L", "M",
               "N", "O", "P", "Q", "R", "S", "T", "U", "V", "W", "X", "Y", "Z">>
LowerCase == <<"a", "b", "c", "d", "e", "f", "g", "h", "i", "j", "k", "l", "m",
               "n", "o", "p", "q", "r", "s", "t", "u", "v", "w", "x", "y", "z">>
DigitChars == <<"0", "1", "2", "3", "4", "5", "6", "7", "8", "9">>
WhiteSpace == {" ", "\t", "\n"}

IndexIn(seq, c) == IF \E i \in 1..Len(seq) : seq[i] = c
                   THEN CHOOSE i \in 1..Len(seq) : seq[i] = c ELSE 0
toLowerCase(str) ==
    [i \in 1..Len(str) |->
        IF IndexIn(UpperCase, str[i]) > 0 THEN LowerCase[IndexIn(UpperCase, str[i])] ELSE str[i]]
RECURSIVE trimStart(_)
trimStart(str) ==
    IF str # <<>> /\ Head(str) \in WhiteSpace THEN trimStart(Tail(str)) ELSE str
RECURSIVE trimEnd(_)
trimEnd(str) ==
    IF str # <<>> /\ str[Len(str)] \in WhiteSpace
    THEN trimEnd(SubSeq(str, 1, Len(str) - 1)) ELSE str
trim(str) == trimEnd(trimStart(str))
startsWith(str, lit) == Len(str) >= Len(lit) /\ SubSeq(str, 1, Len(lit)) = lit

\* the value of a digit in base 16, -1 for another character
HexDigit(c) ==
    IF IndexIn(DigitChars, c) > 0 THEN IndexIn(DigitChars, c) - 1
    ELSE IF IndexIn(LowerCase, c) \in 1..6 THEN IndexIn(LowerCase, c) + 9
    ELSE IF IndexIn(UpperCase, c) \in 1..6 THEN IndexIn(UpperCase, c) + 9
    ELSE -1

\* the value of the longest run of hex digits at the front, -1 if there is none
RECURSIVE hexRun(_, _, _)
hexRun(str, acc, any) ==
    IF str # <<>> /\ HexDigit(Head(str)) >= 0
    THEN hexRun(Tail(str), 16 * acc + HexDigit(Head(str)), TRUE)
    ELSE IF any THEN acc ELSE -1

\* parseInt(str, 16): white space, a sign and 0x are passed over, the digits
\* up to the first other character are read; NaN when there is no digit
parseInt16(str) ==
    LET t == trimStart(str)
        neg == t # <<>> /\ Head(t) = "-"
        u == IF t # <<>> /\ Head(t) \in {"-", "+"} THEN Tail(t) ELSE t
        w == IF Len(u) >= 2 /\ u[1] = "0" /\ u[2] \in {"x", "X"} THEN Tail(Tail(u)) ELSE u
        v == hexRun(w, 0, FALSE)
    IN  IF v < 0 THEN NaN ELSE Q(IF neg THEN -v ELSE v)

RGBA(r, g, b, a) == <<Q(r), Q(g), Q(b), Q(a)>>
Chars_black == <<"b", "l", "a", "c", "k">>
Chars_white == <<"w", "h", "i", "t", "e">>
Chars_red == <<"r", "e", "d">>
Chars_green == <<"g", "r", "e", "e", "n">>
Chars_blue == <<"b", "l", "u", "e">>
Chars_yellow == <<"y", "e", "l", "l", "o", "w">>
Chars_cyan == <<"c", "y", "a", "n">>
Chars_magenta == <<"m", "a", "g", "e", "n", "t", "a">>
Chars_gray == <<"g", "r", "a", "y">>
Chars_grey == <<"g", "r", "e", "y">>
Chars_orange == <<"o", "r", "a", "n", "g", "e">>
Chars_transparent == <<"t", "r", "a", "n", "s", "p", "a", "r", "e", "n", "t">>
Chars_constructor == <<"c", "o", "n", "s", "t", "r", "u", "c", "t", "o", "r">>
Chars_proto == <<"_", "_", "p", "r", "o", "t", "o", "_", "_">>
ColorNames == {Chars_black, Chars_white, Chars_red, Chars_green, Chars_blue, Chars_yellow,
               Chars_cyan, Chars_magenta, Chars_gray, Chars_grey, Chars_orange,
               Chars_transparent}
\* the lower-case names every object literal inherits from Object.prototype
InheritedNames == {Chars_constructor, Chars_proto}
\* s in NAMED, NAMED[s]
InNAMED(name) == name \in ColorNames \cup InheritedNames
NAMED(name) ==
    CASE name = Chars_black -> RGBA(0, 0, 0, 255)
      [] name = Chars_white -> RGBA(255, 255, 255, 255)
      [] name = Chars_red -> RGBA(255, 0, 0, 255)
      [] name = Chars_green -> RGBA(0, 255, 0, 255)
      [] name = Chars_blue -> RGBA(0, 0, 255, 255)
      [] name = Chars_yellow -> RGBA(255, 255, 0, 255)
      [] name = Chars_cyan -> RGBA(0, 255, 255, 255)
      [] name = Chars_magenta -> RGBA(255, 0, 255, 255)
      [] name \in {Chars_gray, Chars_grey} -> RGBA(128, 128, 128, 255)
      [] name = Chars_orange -> RGBA(255, 165, 0, 255)
      [] name = Chars_transparent -> RGBA(0, 0, 0, 0)
      [] name = Chars_constructor -> <<"function Object">>
      [] name = Chars_proto -> <<"Object.prototype">>

\* clamp255(v), clamp01(v) for v >= 0 or NaN (v | 0 of NaN is 0)
clamp255(v) ==
    IF RLT(v, Q(0)) THEN Q(0) ELSE IF RGT(v, Q(255)) THEN Q(255)
    ELSE IF IsNaN(v) THEN Q(0) ELSE RFloor(v)
clamp01(v) == IF RLT(v, Q(0)) THEN Q(0) ELSE IF RGT(v, Q(1)) THEN Q(1) ELSE v

IsDigit(c) == IndexIn(DigitChars, c) > 0
\* the length of the match of \d+\.?\d* at the front of str, 0 if none
RECURSIVE digitRun(_)
digitRun(str) == IF str # <<>> /\ IsDigit(Head(str)) THEN 1 + digitRun(Tail(str)) ELSE 0
numberMatch(str) ==
    LET n == digitRun(str)
        rest == SubSeq(str, n + 1, Len(str))
    IN  IF n = 0 THEN 0
        ELSE IF rest # <<>> /\ Head(rest) = "." THEN n + 1 + digitRun(Tail(rest))
        ELSE n
\* s.match(/\d+\.?\d*/g): the matches from left to right (none: the empty list)
RECURSIVE matchNumbers(_)
matchNumbers(str) ==
    IF str = <<>> THEN <<>>
    ELSE LET n == numberMatch(str)
         IN  IF n = 0 THEN matchNumbers(Tail(str))
             ELSE <<SubSeq(str, 1, n)>> \o matchNumbers(SubSeq(str, n + 1, Len(str)))

\* +"ddd.ddd"
RECURSIVE decimalValue(_, _, _)
decimalValue(str, acc, frac) ==
    IF str = <<>> THEN NormE(acc, 1, -Max(frac, 0))
    ELSE IF Head(str) = "." THEN decimalValue(Tail(str), acc, 0)
    ELSE decimalValue(Tail(str), 10 * acc + IndexIn(DigitChars, Head(str)) - 1,
                      IF frac >= 0 THEN frac + 1 ELSE frac)
toNumber(str) == decimalValue(str, 0, -1)

\* parseColor(c): c is an array of numbers, a string, or something else
parseColor(c) ==
    IF c.kind = "array"
    THEN LET at(i, d) == IF i <= Len(c.v) THEN Q(ToInt32(c.v[i])) ELSE Q(d)
         IN  <<at(1, 0), at(2, 0), at(3, 0), at(4, 255)>>
    ELSE IF c.kind # "string" THEN Null
    ELSE LET \* hx(i) for the lengths 3 and 4, the slices of two for 6 and 8
             hexColor(hex, len) ==
                 LET channels == [k \in 1..4 |->
                                     IF k = 4 /\ len \in {3, 6} THEN Q(255)
                                     ELSE parseInt16(IF len < 6 THEN <<hex[k], hex[k]>>
                                                     ELSE SubSeq(hex, 2 * k - 1, 2 * k))]
                 IN  IF len \in {3, 4, 6, 8} THEN channels ELSE Null
             rgbColor(nums) ==
                 IF Len(nums) # 3 /\ Len(nums) # 4 THEN Null
                 ELSE [k \in 1..4 |->
                          IF k <= 3 THEN clamp255(toNumber(nums[k]))
                          ELSE IF Len(nums) = 3 THEN Q(255)
                          ELSE RFloor(RAdd(RMul(clamp01(toNumber(nums[4])), Q(255)),
                                           Norm(1, 2)))]
             of(s) ==
                 IF InNAMED(s) THEN NAMED(s)
                 ELSE IF s # <<>> /\ s[1] = "#" THEN hexColor(Tail(s), Len(s) - 1)
                 ELSE IF startsWith(s, <<"r", "g", "b">>) THEN rgbColor(matchNumbers(s))
                 ELSE Null
         IN  of(toLowerCase(trim(c.v)))

\* a string literal and an array literal as arguments
Str(chars) == [v |-> chars, kind |-> "string"]
Arr(nums) == [v |-> nums, kind |-> "array"]

----------------------------------------------------------------------------
(* viewport.ts.  preserveAspect is a boolean ("bool:false", "bool:true") or *)
(* a string.  rev 1 is the first revision of the class (ratio comparison),  *)
(* rev 2 the one with aspectMode, safeSpan and the min-based scale.         *)

Bounds(xMin, xMax, yMin, yMax) == [xMin |-> xMin, xMax |-> xMax, yMin |-> yMin, yMax |-> yMax]
Rect(x, y, w, h) == [width |-> w, height |-> h, x |-> x, y |-> y]

Truthy(pa) == pa # "bool:false" /\ pa # ""

EpsDen == 1000000000
EPS == Norm(1, EpsDen)
LtEps(a) == RLT(a, EPS)

\* safeSpan(min, max, eps = 1e-9)
safeSpan(min, max) ==
    IF ~IsFinite(min) \/ ~IsFinite(max) THEN <<Q(0), Q(1)>>
    ELSE IF LtEps(RSub(max, min))
         THEN LET around(c) == <<DSub(c, EPS), DAdd(c, EPS)>>
              IN  around(RDiv(DAdd(min, max), Q(2)))
         ELSE <<min, max>>

\* the bounds updateWorld(bounds) stores
updateWorld(b) ==
    LET of(sx, sy) == Bounds(sx[1], sx[2], sy[1], sy[2])
    IN  of(safeSpan(b.xMin, b.xMax), safeSpan(b.yMin, b.yMax))

\* the integer a whole number a >= 0 stands for
IntOf(a) == a[1] * IntPow10(a[3])

\* nicify(step)
nicify(step) ==
    IF ~IsFinite(step) \/ ~RGT(step, Q(0)) THEN Q(1)
    ELSE LET e == FloorLog10(step)
             nice(f) == IF RLT(f, Norm(3, 2)) THEN 1
                        ELSE IF RLT(f, Q(3)) THEN 2
                        ELSE IF RLT(f, Q(7)) THEN 5
                        ELSE 10
         IN  RMul(Q(nice(RDiv(step, Pow10(e)))), Pow10(e))

TickEps == Pow10(-12)

\* computeTicks(min, max, numTicks); numTicks is a whole number here
computeTicks(min, max, numTicks) ==
    IF ~IsFinite(min) \/ ~IsFinite(max) \/ numTicks <= 0 THEN <<>>
    ELSE IF RLT(RAbs(RSub(max, min)), TickEps) THEN <<min>>
    ELSE LET \* nicify returns a finite step > 0, so the [min, max] fallback is dead;
             \* the loop runs for i = 0..maxIndex and not at all when maxIndex < 0
             loop(step, start, maxIndex) ==
                 IF RLT(maxIndex, Q(0)) THEN <<>>
                 ELSE [i \in 1..(IntOf(maxIndex) + 1) |->
                          ToFixed(RAdd(start, RMul(Q(i - 1), step)), 10)]
             from(step, start) == loop(step, start, RCeil(RDiv(RSub(max, start), step)))
             by(step) == from(step, RMul(RCeil(RDiv(min, step)), step))
         IN  by(nicify(RDiv(RSub(max, min), Q(numTicks))))

\* updateWorld(bounds, numTicks = 10)
NumTicks == 10

\* this.xTicks / this.yTicks as updateWorld sets them from the stored bounds
ticksOf(wb, axis, numTicks) ==
    computeTicks(IF axis = "x" THEN wb.xMin ELSE wb.yMin,
                 IF axis = "x" THEN wb.xMax ELSE wb.yMax, numTicks)

----------------------------------------------------------------------------
(* graph.ts *)

\* for (x = first; x <= max + 1e-12; x += step) ticks.push(+x.toFixed(6));
\* the test is made on x - max, which is the same comparison
RECURSIVE Graph_ticksFrom(_, _, _)
Graph_ticksFrom(x, max, step) ==
    IF RLE(RSub(x, max), TickEps)
    THEN <<ToFixed(x, 6)>> \o Graph_ticksFrom(RAdd(x, step), max, step)
    ELSE <<>>

\* Graph.computeTicks(min, max, n); n is a whole number here
Graph_computeTicks(min, max, n) ==
    IF ~IsFinite(min) \/ ~IsFinite(max) \/ n <= 0 THEN <<>>
    ELSE LET range == RSub(max, min)
         IN  IF range = Q(0) THEN <<min>>
             \* Math.log10 of a negative stepRaw is NaN, and so are step and first
             ELSE IF RLT(range, Q(0)) THEN <<>>
             ELSE LET from(step) == Graph_ticksFrom(RMul(RCeil(RDiv(min, step)), step), max, step)
                      of(stepRaw, magnitude) ==
                          from(RMul(RCeil(RDiv(stepRaw, magnitude)), magnitude))
                      raw(stepRaw) == of(stepRaw, Pow10(FloorLog10(stepRaw)))
                  IN  raw(RDiv(range, Q(n)))

----------------------------------------------------------------------------
(* viewport.ts, continued *)

aspectMode(pa) ==
    IF pa = "bool:true" THEN "square"
    ELSE IF ~Truthy(pa) \/ pa = "none" THEN "none"
    ELSE IF pa = "square" THEN "square"
    ELSE IF pa = "fit" THEN "fit"
    ELSE "none"

scale_max(wb, vp, pa) ==
    LET lx == RDiv(vp.width, RSub(wb.xMax, wb.xMin))
        ly == RDiv(vp.height, RSub(wb.yMax, wb.yMin))
    IN  IF aspectMode(pa) = "none" THEN V2(lx, ly)
        ELSE LET l == IF RLT(lx, ly) THEN ly ELSE lx IN V2(l, l)

\* get scale(), rev 2
scale(wb, vp, pa) ==
    LET s == RSub(wb.xMax, wb.xMin)
        o == RSub(wb.yMax, wb.yMin)
        uniform(l) == V2(l, l)
        of(sx, sy) == IF aspectMode(pa) = "none" THEN V2(sx, sy) ELSE uniform(RMin(sx, sy))
    IN  of(RDiv(vp.width, s), RDiv(vp.height, o))

worldToCanvas(wb, vp, pa, x, y) ==
    LET u == RSub(wb.xMax, wb.xMin)
        v == RSub(wb.yMax, wb.yMin)
        centred(sc) ==
            LET w == RMul(sc, u)
                h == RMul(sc, v)
                offsetX == RAdd(vp.x, RDiv(RSub(vp.width, w), Q(2)))
                offsetY == RAdd(vp.y, RDiv(RSub(vp.height, h), Q(2)))
            IN  V2(RAdd(offsetX, RMul(RSub(x, wb.xMin), sc)),
                   RAdd(offsetY, RMul(RSub(wb.yMax, y), sc)))
        with(sc) ==
            IF aspectMode(pa) # "none" THEN centred(sc[1])
            ELSE V2(RAdd(vp.x, RMul(RSub(x, wb.xMin), sc[1])),
                    RAdd(vp.y, RMul(RSub(wb.yMax, y), sc[2])))
    IN  with(scale(wb, vp, pa))

canvasToWorld_noFlip(wb, vp, pa, x, y) ==
    LET sc == scale(wb, vp, pa)
    IN  V2(RAdd(wb.xMin, RDiv(RSub(x, vp.x), sc[1])),
           RAdd(wb.yMin, RDiv(RSub(y, vp.y), sc[2])))

canvasToWorld(wb, vp, pa, x, y) ==
    LET u == RSub(wb.xMax, wb.xMin)
        v == RSub(wb.yMax, wb.yMin)
        centred(sc) ==
            LET w == RMul(sc, u)
                h == RMul(sc, v)
                offsetX == RAdd(vp.x, RDiv(RSub(vp.width, w), Q(2)))
                offsetY == RAdd(vp.y, RDiv(RSub(vp.height, h), Q(2)))
            IN  V2(RAdd(wb.xMin, RDiv(RSub(x, offsetX), sc)),
                   RSub(wb.yMax, RDiv(RSub(y, offsetY), sc)))
        with(sc) ==
            IF aspectMode(pa) # "none" THEN centred(sc[1])
            ELSE V2(RAdd(wb.xMin, RDiv(RSub(x, vp.x), sc[1])),
                    RSub(wb.yMax, RDiv(RSub(y, vp.y), sc[2])))
    IN  with(scale(wb, vp, pa))

Infinity == <<1, 0, 0>>

\* the loop of fitToBounds over boundsArray: box is <<xMin, xMax, yMin, yMax>>;
\* an entry that is null or undefined is passed over
RECURSIVE unionFrom(_, _, _)
unionFrom(list, i, box) ==
    IF i > Len(list) THEN box
    ELSE IF list[i] = Null THEN unionFrom(list, i + 1, box)
    ELSE unionFrom(list, i + 1,
                   <<RMin(box[1], list[i].xMin), RMax(box[2], list[i].xMax),
                     RMin(box[3], list[i].yMin), RMax(box[4], list[i].yMax)>>)
unionBox(list) == unionFrom(list, 1, <<Infinity, RNeg(Infinity), Infinity, RNeg(Infinity)>>)

\* a square branch that widens x only
fitSquare_xOnly(b) ==
    LET dx == DSub(b.xMax, b.xMin)
        dy == DSub(b.yMax, b.yMin)
        half == RDiv(RMax(dx, dy), Q(2))
        cx == RDiv(DAdd(b.xMin, b.xMax), Q(2))
    IN  Bounds(DSub(cx, half), DAdd(cx, half), b.yMin, b.yMax)

\* the square branch: both spans become the larger one, about the centres
fitSquare(b) ==
    LET dx == DSub(b.xMax, b.xMin)
        dy == DSub(b.yMax, b.yMin)
        span == RMax(dx, dy)
        about(cx, cy, half) ==
            Bounds(DSub(cx, half), DAdd(cx, half), DSub(cy, half), DAdd(cy, half))
    IN  about(RDiv(DAdd(b.xMin, b.xMax), Q(2)), RDiv(DAdd(b.yMin, b.yMax), Q(2)),
              RDiv(span, Q(2)))

\* the fit branch: one span grows to the pixel aspect of the viewport
fitLetterbox(b, vp) ==
    LET taller(half, cy) == Bounds(b.xMin, b.xMax, DSub(cy, half), DAdd(cy, half))
        wider(half, cx) == Bounds(DSub(cx, half), DAdd(cx, half), b.yMin, b.yMax)
        of(dx, dy, pixelAspect) ==
            LET worldAspect == RDiv(dx, RMax(TickEps, dy))
            IN  IF RGT(worldAspect, pixelAspect)
                THEN taller(RDiv(RDiv(dx, pixelAspect), Q(2)),
                            RDiv(DAdd(b.yMin, b.yMax), Q(2)))
                ELSE wider(RDiv(RMul(dy, pixelAspect), Q(2)),
                           RDiv(DAdd(b.xMin, b.xMax), Q(2)))
    IN  of(DSub(b.xMax, b.xMin), DSub(b.yMax, b.yMin),
           RDiv(vp.width, RMax(Q(1), vp.height)))

\* fitToBounds(boundsArray, padding): the bounds it assigns to this.worldBounds
\* before its call of updateWorld, or Null when it returns early
fitToBounds(vp, pa, list, padding) ==
    IF list = Null \/ Len(list) = 0 THEN Null
    ELSE LET mode == aspectMode(pa)
             shaped(padded) ==
                 IF mode = "square" THEN fitSquare(padded)
                 ELSE IF mode = "fit" THEN fitLetterbox(padded, vp)
                 ELSE padded
             \* padX, padY from the spans w and h
             pad(span) == IF RLT(padding, Q(1)) THEN RMul(span, padding) ELSE padding
             padBy(sx, sy, padX, padY) ==
                 shaped(Bounds(DSub(sx[1], padX), DAdd(sx[2], padX),
                               DSub(sy[1], padY), DAdd(sy[2], padY)))
             spans(sx, sy) == padBy(sx, sy, pad(DSub(sx[2], sx[1])), pad(DSub(sy[2], sy[1])))
             of(u) ==
                 IF \E k \in 1..4 : ~IsFinite(u[k]) THEN Null
                 ELSE spans(safeSpan(u[1], u[2]), safeSpan(u[3], u[4]))
         IN  of(unionBox(list))

\* get scale(), rev 1
scale1(wb, vp, pa) ==
    LET xRange == RSub(wb.xMax, wb.xMin)
        yRange == RSub(wb.yMax, wb.yMin)
        uniform(s) == V2(s, s)
        of(sx, sy) ==
            IF ~Truthy(pa) \/ pa = "none" THEN V2(sx, sy)
            ELSE LET viewRatio == RDiv(vp.width, vp.height)
                     dataRatio == RDiv(xRange, yRange)
                 IN  uniform(IF RGT(viewRatio, dataRatio) THEN sy ELSE sx)
    IN  of(RDiv(vp.width, xRange), RDiv(vp.height, yRange))

worldToCanvas1(wb, vp, pa, x, y) ==
    LET xRange == RSub(wb.xMax, wb.xMin)
        yRange == RSub(wb.yMax, wb.yMin)
        centred(s) ==
            LET scaledWidth == RMul(s, xRange)
                scaledHeight == RMul(s, yRange)
                offsetX == RAdd(vp.x, RDiv(RSub(vp.width, scaledWidth), Q(2)))
                offsetY == RAdd(vp.y, RDiv(RSub(vp.height, scaledHeight), Q(2)))
            IN  V2(RAdd(offsetX, RMul(RSub(x, wb.xMin), s)),
                   RAdd(offsetY, RMul(RSub(yRange, RSub(y, wb.yMin)), s)))
        with(sc) ==
            IF Truthy(pa) THEN centred(sc[1])
            ELSE V2(RAdd(vp.x, RMul(RSub(x, wb.xMin), sc[1])),
                    RAdd(vp.y, RMul(RSub(wb.yMax, y), sc[2])))
    IN  with(scale1(wb, vp, pa))

canvasToWorld1(wb, vp, pa, px, py) ==
    LET xRange == RSub(wb.xMax, wb.xMin)
        yRange == RSub(wb.yMax, wb.yMin)
        centred(s) ==
            LET scaledWidth == RMul(s, xRange)
                scaledHeight == RMul(s, yRange)
                offsetX == RAdd(vp.x, RDiv(RSub(vp.width, scaledWidth), Q(2)))
                offsetY == RAdd(vp.y, RDiv(RSub(vp.height, scaledHeight), Q(2)))
            IN  V2(RAdd(wb.xMin, RDiv(RSub(px, offsetX), s)),
                   RSub(wb.yMax, RDiv(RSub(py, offsetY), s)))
        with(sc) ==
            IF Truthy(pa) THEN centred(sc[1])
            ELSE V2(RAdd(wb.xMin, RDiv(RSub(px, vp.x), sc[1])),
                    RSub(wb.yMax, RDiv(RSub(py, vp.y), sc[2])))
    IN  with(scale1(wb, vp, pa))

----------------------------------------------------------------------------
(* Graph.draw, in graph.ts and in its earlier revision (grev 2 and 1).  A  *)
(* draw issues drawLine (raster.ts) and app.drawText calls to app; each is *)
(* recorded with its arguments and with the stage of draw it comes from.   *)
(* An option that was not given is <<>>, one that was given is <<value>>.  *)

Undefined == <<>>
Given(v) == <<v>>
\* o !== false, o || false, o ?? d
NotFalse(o) == o # Given(FALSE)
OrFalse(o) == o = Given(TRUE)
OrElse(o, d) == IF o = Undefined THEN d ELSE o[1]

\* parseColor("#2a2a2a"), parseColor("#888"), parseColor("#555")
gridColor == <<42, 42, 42, 255>>
axisColor == <<136, 136, 136, 255>>
borderColor == <<85, 85, 85, 255>>

\* new Graph(vp, options)
Graph_new(gr, o) ==
    [grev |-> gr,
     showGrid |-> NotFalse(o.showGrid), showAxes |-> NotFalse(o.showAxes),
     showTicks |-> NotFalse(o.showTicks), drawBorder |-> OrFalse(o.drawBorder),
     axisAtZero |-> NotFalse(o.axisAtZero),
     tickSizePx |-> 6, tickThickness |-> 1, axisThickness |-> 2,
     margin |-> 30, labelOffset |-> 10,
     numTicksX |-> IF gr = 2 THEN Given(OrElse(o.numTicksX, 5)) ELSE o.numTicksX,
     numTicksY |-> IF gr = 2 THEN Given(OrElse(o.numTicksY, 5)) ELSE o.numTicksY,
     autoScale |-> IF gr = 2 THEN OrElse(o.autoScale, FALSE) ELSE NotFalse(o.autoScale),
     axisXPos |-> Q(0), axisYPos |-> Q(0)]

Line(stage, p0, p1, color, wd) ==
    [width |-> wd, p0 |-> p0, p1 |-> p1, stage |-> stage, color |-> color, call |-> "drawLine"]
Text(stage, text, pos, align, baseline) ==
    [stage |-> stage, call |-> "drawText", text |-> text, pos |-> pos,
     align |-> align, baseline |-> baseline]

decimalsForStep(step) ==
    IF ~IsFinite(step) \/ ~RGT(step, Q(0)) THEN 0
    ELSE IF ~RLT(step, Q(1)) THEN 0
    ELSE Min(6, -FloorLog10(step))

\* fmtTick(x, decimals): the numeral of x rounded to that many decimals,
\* given as the rounded value and the number of decimals
fmtTick(x, decimals) == <<ToFixed(x, decimals), decimals>>

toCanvas(r, wb, vp, pa, x, y) ==
    IF r = 2 THEN worldToCanvas(wb, vp, pa, x, y) ELSE worldToCanvas1(wb, vp, pa, x, y)

\* autoScaleTicks: the tick counts after it
autoTicks(g, wb, vp) ==
    LET xRange == RAbs(RSub(wb.xMax, wb.xMin))
        yRange == RAbs(RSub(wb.yMax, wb.yMin))
    IN  [g EXCEPT
            !.numTicksX = IF g.autoScale /\ RGT(xRange, Q(0))
                          THEN Given(Max(2, IntOf(RFloor(RDiv(vp.width, Q(80)))))) ELSE @,
            !.numTicksY = IF g.autoScale /\ RGT(yRange, Q(0))
                          THEN Given(Max(2, IntOf(RFloor(RDiv(vp.height, Q(80)))))) ELSE @]

\* Graph.draw(app) of graph.ts: the calls it issues, in order
Graph_draw(g0, r, wb, vp, pa) ==
    LET issue(g, xT, yT, decimalsX, decimalsY, drawX, drawY, canvas) ==
      LET
        W(x, y) == canvas[<<x, y>>]
        t2 == Norm(g.tickSizePx, 2)
        off == Q(g.labelOffset)
        grid ==
            [i \in 1..Len(xT) |->
                Line("grid", W(xT[i], wb.yMin), W(xT[i], wb.yMax), gridColor, 1)]
            \o [i \in 1..Len(yT) |->
                Line("grid", W(wb.xMin, yT[i]), W(wb.xMax, yT[i]), gridColor, 1)]
        axes ==
            <<Line("axis", W(wb.xMin, drawX), W(wb.xMax, drawX), axisColor, g.axisThickness),
              Line("axis", W(drawY, wb.yMin), W(drawY, wb.yMax), axisColor, g.axisThickness)>>
        \* each tick mark is followed by its label
        xMarks ==
            [k \in 1..(2 * Len(xT)) |->
                LET x == xT[(k + 1) \div 2]
                    c == W(x, drawX)
                IN  IF k % 2 = 1
                    THEN Line("tick", V2(c[1], RSub(c[2], t2)), V2(c[1], RAdd(c[2], t2)),
                              axisColor, g.tickThickness)
                    ELSE Text("label", fmtTick(x, decimalsX), V2(c[1], RAdd(c[2], off)),
                              "center", "top")]
        yMarks ==
            [k \in 1..(2 * Len(yT)) |->
                LET y == yT[(k + 1) \div 2]
                    c == W(drawY, y)
                IN  IF k % 2 = 1
                    THEN Line("tick", V2(RSub(c[1], t2), c[2]), V2(RAdd(c[1], t2), c[2]),
                              axisColor, g.tickThickness)
                    ELSE Text("label", fmtTick(y, decimalsY), V2(RSub(c[1], off), c[2]),
                              "right", "middle")]
      IN  (IF g.showGrid THEN grid ELSE <<>>)
          \o (IF g.showAxes THEN axes ELSE <<>>)
          \o (IF g.showTicks /\ g.tickSizePx > 0 THEN xMarks \o yMarks ELSE <<>>)
        \* this.vp.worldToCanvas at the world points the draw uses
        placed(g, xT, yT, decimalsX, decimalsY, drawX, drawY) ==
            issue(g, xT, yT, decimalsX, decimalsY, drawX, drawY,
                  [p \in ({xT[i] : i \in 1..Len(xT)} \cup {wb.xMin, wb.xMax, drawY})
                          \X ({yT[i] : i \in 1..Len(yT)} \cup {wb.yMin, wb.yMax, drawX}) |->
                      toCanvas(r, wb, vp, pa, p[1], p[2])])
        ticked(g, xT, yT) ==
            placed(g, xT, yT,
                  decimalsForStep(IF Len(xT) > 1 THEN RAbs(RSub(xT[2], xT[1])) ELSE Q(1)),
                  decimalsForStep(IF Len(yT) > 1 THEN RAbs(RSub(yT[2], yT[1])) ELSE Q(1)),
                  IF g.axisAtZero /\ RLE(wb.yMin, Q(0)) /\ RLE(Q(0), wb.yMax)
                  THEN g.axisXPos ELSE wb.yMin,
                  IF g.axisAtZero /\ RLE(wb.xMin, Q(0)) /\ RLE(Q(0), wb.xMax)
                  THEN g.axisYPos ELSE wb.xMin)
        with(g) ==
            ticked(g, Graph_computeTicks(wb.xMin, wb.xMax, g.numTicksX[1]),
                   Graph_computeTicks(wb.yMin, wb.yMax, g.numTicksY[1]))
    IN  with(autoTicks(g0, wb, vp))

\* computeTicks(min, max, maxTicks = 10) of the earlier revision
computeTicks0(min, max) ==
    LET range == RSub(max, min)
    IN  IF ~IsFinite(range) \/ range = Q(0) THEN <<min, max>>
        ELSE LET nice(roughStep, mag) ==
                     IF RLE(roughStep, mag) THEN 1
                     ELSE IF RLE(roughStep, RMul(Q(2), mag)) THEN 2
                     ELSE IF RLE(roughStep, RMul(Q(5), mag)) THEN 5 ELSE 10
                 loop(step, niceMin, numSteps) ==
                     IF RLT(numSteps, Q(0)) THEN <<>>
                     ELSE [i \in 1..(IntOf(numSteps) + 1) |->
                              ToFixed(RAdd(niceMin, RMul(Q(i - 1), step)), 10)]
                 between(step, niceMin, niceMax) ==
                     loop(step, niceMin, RDiv(RSub(niceMax, niceMin), step))
                 by(step) ==
                     between(step, RMul(RFloor(RDiv(min, step)), step),
                             RMul(RCeil(RDiv(max, step)), step))
                 of(roughStep, mag) == by(RMul(Q(nice(roughStep, mag)), mag))
                 rough(roughStep) == of(roughStep, Pow10(FloorLog10(RAbs(roughStep))))
             IN  rough(RDiv(range, Q(10)))

\* a || b for numbers
OrNum(a, b) == IF a = Q(0) \/ IsNaN(a) THEN b ELSE a

RECURSIVE foldMin(_, _, _)
foldMin(xs, i, acc) == IF i > Len(xs) THEN acc ELSE foldMin(xs, i + 1, RMin(acc, xs[i]))
RECURSIVE foldMax(_, _, _)
foldMax(xs, i, acc) == IF i > Len(xs) THEN acc ELSE foldMax(xs, i + 1, RMax(acc, xs[i]))
RECURSIVE flatMap(_, _, _)
flatMap(series, i, k) ==
    IF i > Len(series) THEN <<>>
    ELSE [j \in 1..Len(series[i]) |-> series[i][j][k]] \o flatMap(series, i + 1, k)

\* the bounds the earlier draw works with: those of the viewport, or those of
\* the data when autoScale is set and data is given
dataBounds(g, wb, dataSeries) ==
    IF g.autoScale /\ Len(dataSeries) > 0
    THEN LET allX == flatMap(dataSeries, 1, 1)
             allY == flatMap(dataSeries, 1, 2)
             of(x0, x1, y0, y1) ==
                 IF ~(IsFinite(x0) /\ IsFinite(x1) /\ IsFinite(y0) /\ IsFinite(y1))
                 THEN Bounds(Q(0), Q(1), Q(0), Q(1))
                 ELSE Bounds(IF x0 = x1 THEN RSub(x0, Norm(1, 2)) ELSE x0,
                             IF x0 = x1 THEN RAdd(x1, Norm(1, 2)) ELSE x1,
                             IF y0 = y1 THEN RSub(y0, Norm(1, 2)) ELSE y0,
                             IF y0 = y1 THEN RAdd(y1, Norm(1, 2)) ELSE y1)
         IN  of(foldMin(allX, 1, Infinity), foldMax(allX, 1, RNeg(Infinity)),
                foldMin(allY, 1, Infinity), foldMax(allY, 1, RNeg(Infinity)))
    ELSE wb

\* the ticks of one axis in the earlier draw, at least two
safeTicks(n, min, max) ==
    LET atLeastTwo(ts) == IF Len(ts) >= 2 THEN ts ELSE <<min, max>>
    IN  atLeastTwo(IF n # Undefined /\ n[1] # 0
                   THEN [i \in 1..(n[1] + 1) |->
                            RAdd(min, RMul(Q(i - 1), RDiv(RSub(max, min), Q(n[1]))))]
                   ELSE computeTicks0(min, max))

\* the bounds the earlier draw assigns to this.vp.worldBounds
Graph_world0(g, wb, dataSeries) ==
    LET grown(b, xT, yT) ==
            Bounds(RMin(xT[1], b.xMin), RMax(xT[Len(xT)], b.xMax),
                   RMin(yT[1], b.yMin), RMax(yT[Len(yT)], b.yMax))
        of(b) == grown(b, safeTicks(g.numTicksX, b.xMin, b.xMax),
                       safeTicks(g.numTicksY, b.yMin, b.yMax))
    IN  of(dataBounds(g, wb, dataSeries))

\* Graph.draw(app, dataSeries) of the earlier revision: the calls it issues
Graph_draw0(g, r, wb, vp, pa, dataSeries) ==
    LET issue(b, xT, yT, nb, decimalsX, decimalsY, canvas) ==
      LET
        plotLeft == vp.x
        plotRight == RAdd(vp.x, vp.width)
        plotTop == vp.y
        plotBottom == RAdd(vp.y, vp.height)
        W(x, y) == canvas[<<x, y>>]
        t == Q(g.tickSizePx)
        half == Norm(g.margin, 2)
        grid ==
            [i \in 1..Len(xT) |->
                Line("grid", W(xT[i], nb.yMin), W(xT[i], nb.yMax), gridColor, 1)]
            \o [i \in 1..Len(yT) |->
                Line("grid", W(nb.xMin, yT[i]), W(nb.xMax, yT[i]), gridColor, 1)]
        axes ==
            IF ~g.axisAtZero
            THEN <<Line("axis", V2(plotLeft, plotTop), V2(plotLeft, plotBottom), axisColor, 2),
                   Line("axis", V2(plotLeft, plotBottom), V2(plotRight, plotBottom), axisColor, 2)>>
            ELSE (IF RLE(nb.xMin, Q(0)) /\ RLE(Q(0), nb.xMax)
                  THEN <<Line("axis", W(Q(0), nb.yMin), W(Q(0), nb.yMax), axisColor, 2)>>
                  ELSE <<>>)
                 \o (IF RLE(nb.yMin, Q(0)) /\ RLE(Q(0), nb.yMax)
                     THEN <<Line("axis", W(nb.xMin, Q(0)), W(nb.xMax, Q(0)), axisColor, 2)>>
                     ELSE <<>>)
        ticks ==
            [i \in 1..Len(xT) |->
                LET px == W(xT[i], nb.yMin)[1]
                IN  Line("tick", V2(px, plotBottom), V2(px, RSub(plotBottom, t)), axisColor, 1)]
            \o [i \in 1..Len(yT) |->
                LET py == W(nb.xMin, yT[i])[2]
                IN  Line("tick", V2(plotLeft, py), V2(RAdd(plotLeft, t), py), axisColor, 1)]
        labels ==
            [i \in 1..Len(xT) |->
                LET c == W(xT[i], nb.yMin)
                IN  Text("label", fmtTick(xT[i], decimalsX),
                         V2(RMax(plotLeft, RMin(c[1], plotRight)), RAdd(plotBottom, half)),
                         "center", "top")]
            \o [i \in 1..Len(yT) |->
                LET c == W(nb.xMin, yT[i])
                IN  Text("label", fmtTick(yT[i], decimalsY),
                         V2(RSub(vp.x, half), RMax(plotTop, RMin(c[2], plotBottom))),
                         "right", "middle")]
        border ==
            <<Line("border", V2(plotLeft, plotTop), V2(plotRight, plotTop), borderColor, 1),
              Line("border", V2(plotRight, plotTop), V2(plotRight, plotBottom), borderColor, 1),
              Line("border", V2(plotRight, plotBottom), V2(plotLeft, plotBottom), borderColor, 1),
              Line("border", V2(plotLeft, plotBottom), V2(plotLeft, plotTop), borderColor, 1)>>
      IN  (IF g.showGrid THEN grid ELSE <<>>)
          \o (IF g.showAxes THEN axes ELSE <<>>)
          \o (IF g.showTicks /\ g.tickSizePx > 0 THEN ticks ELSE <<>>)
          \o labels
          \o (IF g.drawBorder THEN border ELSE <<>>)
        \* dx = (xTicks[1] - xTicks[0]) || (xMax - xMin) || 1, and dy likewise
        \* this.vp.worldToCanvas, under the new bounds, at the world points the draw uses
        placed(b, xT, yT, nb, decimalsX, decimalsY) ==
            issue(b, xT, yT, nb, decimalsX, decimalsY,
                  [p \in ({xT[i] : i \in 1..Len(xT)} \cup {nb.xMin, nb.xMax, Q(0)})
                          \X ({yT[i] : i \in 1..Len(yT)} \cup {nb.yMin, nb.yMax, Q(0)}) |->
                      toCanvas(r, nb, vp, pa, p[1], p[2])])
        ticked(b, xT, yT) ==
            placed(b, xT, yT,
                  Bounds(RMin(xT[1], b.xMin), RMax(xT[Len(xT)], b.xMax),
                         RMin(yT[1], b.yMin), RMax(yT[Len(yT)], b.yMax)),
                  decimalsForStep(RAbs(OrNum(OrNum(RSub(xT[2], xT[1]),
                                                   RSub(b.xMax, b.xMin)), Q(1)))),
                  decimalsForStep(RAbs(OrNum(OrNum(RSub(yT[2], yT[1]),
                                                   RSub(b.yMax, b.yMin)), Q(1)))))
        with(b) == ticked(b, safeTicks(g.numTicksX, b.xMin, b.xMax),
                          safeTicks(g.numTicksY, b.yMin, b.yMax))
    IN  with(dataBounds(g, wb, dataSeries))

----------------------------------------------------------------------------
(* drawables.ts and the shapes of the earlier script (srev 2 and 1).  A    *)
(* shape is a record of its fields, its transform is the identity; draw   *)
(* gives how the call ended and the calls it made on the way.  The graph  *)
(* argument is Undefined or Given(g) with g.vp the viewport manager.      *)

Chars_redFill == <<"r", "g", "b", "a", "(", "2", "5", "5", ",", "0", ",", "0", ",",
                   "0", ".", "3", ")">>
Chars_yellowFill == <<"r", "g", "b", "a", "(", "2", "5", "5", ",", "2", "5", "5", ",",
                      "0", ",", "0", ".", "5", ")">>

\* the Drawable constructor: if (!this.fillColor) this.fillColor = color
Drawable_new(class, color, fill, fillColor) ==
    [color |-> color, class |-> class, fill |-> fill,
     fillColor |-> IF fillColor = Null THEN color ELSE fillColor, srev |-> 2]

\* parseColorSafe(input): parseColor(input) ?? [255, 255, 255, 255]
parseColorSafe(input) ==
    LET orWhite(c) == IF c = Null THEN RGBA(255, 255, 255, 255) ELSE c
    IN  orWhite(parseColor(Str(input)))

Returned(calls) == [calls |-> calls, out |-> "returned"]
Threw(what, calls) == [calls |-> calls, out |-> what]
Call(name, args) == [call |-> name, args |-> args]
\* graph.vp.worldToCanvas(x, y) with the graph given, at each point of a list
vpToCanvas(g, pts) == [i \in 1..Len(pts) |-> worldToCanvas(g.wb, g.vp, g.pa, pts[i][1], pts[i][2])]

DrawableFunction_new(data, opts) ==
    Drawable_new("DrawableFunction", OrElse(opts.color, Chars_red), OrElse(opts.fill, FALSE),
                 OrElse(opts.fillColor, Chars_redFill))
        @@ [data |-> data, baselineY |-> OrElse(opts.baselineY, Q(0))]

DrawableFunction_draw(sh, gref) ==
    IF gref = Undefined \/ Len(sh.data) = 0 THEN Returned(<<>>)
    ELSE LET n == Len(sh.data)
             \* pts holds the data points and then the two points on the baseline
             of(pts) ==
                 LET lines == [i \in 1..(n - 1) |->
                                  Call("drawLine", <<pts[i], pts[i + 1], parseColorSafe(sh.color)>>)]
                 IN  IF ~sh.fill THEN Returned(lines)
                     ELSE Returned(lines \o <<Call("fillPolygon",
                                                   <<pts, parseColorSafe(sh.fillColor)>>)>>)
         IN  of(vpToCanvas(gref[1], sh.data \o <<V2(sh.data[n][1], sh.baselineY),
                                                 V2(sh.data[1][1], sh.baselineY)>>))

DrawableCircle_new(center, radius, opts) ==
    Drawable_new("DrawableCircle", OrElse(opts.color, Chars_white), OrElse(opts.fill, FALSE),
                 OrElse(opts.fillColor, Null))
        @@ [center |-> center, radius |-> radius]

DrawableCircle_draw(sh, gref) ==
    IF gref = Undefined THEN Threw("TypeError", <<>>)
    ELSE LET g == gref[1]
             of(c, r) ==
                 (IF sh.fill
                  THEN <<Call("fillCircle", <<c, r, parseColorSafe(sh.fillColor)>>)>>
                  ELSE <<>>)
                 \o <<Call("drawCircleOutline", <<c, r, parseColorSafe(sh.color)>>)>>
             by(sc) == RMul(sh.radius,
                            IF Truthy(g.pa) THEN sc[1] ELSE RMul(RAdd(sc[1], sc[2]), Norm(1, 2)))
         IN  Returned(of(vpToCanvas(g, <<sh.center>>)[1], by(scale(g.wb, g.vp, g.pa))))

\* Math.max(1, (opts.width ?? 2) | 0) for a whole width
DrawableLine_new(p1, p2, opts) ==
    Drawable_new("DrawableLine", OrElse(opts.color, Chars_yellow), FALSE, Null)
        @@ [width |-> Max(1, OrElse(opts.width, 2)), p1 |-> p1, p2 |-> p2]

DrawableLine_draw(sh, gref) ==
    IF gref = Undefined THEN Threw("TypeError", <<>>)
    ELSE Returned(<<Call("strokeShape", <<vpToCanvas(gref[1], <<sh.p1, sh.p2>>),
                                          parseColorSafe(sh.color), sh.width>>)>>)

DrawablePoint_new(pos, opts) ==
    Drawable_new("DrawablePoint", OrElse(opts.color, Chars_white), FALSE, Null)
        @@ [pos |-> pos, type |-> OrElse(opts.type, "circle"), size |-> OrElse(opts.size, 3)]

DrawablePoint_draw(sh, gref) ==
    IF gref = Undefined THEN Threw("TypeError", <<>>)
    ELSE Returned(<<Call("rawPoint", <<vpToCanvas(gref[1], <<sh.pos>>)[1],
                                       parseColorSafe(sh.color), sh.type, sh.size>>)>>)

DrawableTriangle_new(p1, p2, p3, opts) ==
    Drawable_new("DrawableTriangle", OrElse(opts.color, Chars_yellow), OrElse(opts.fill, TRUE),
                 OrElse(opts.fillColor, Chars_yellowFill))
        @@ [points |-> <<p1, p2, p3>>]

DrawableTriangle_draw(sh, gref) ==
    IF gref = Undefined THEN Threw("TypeError", <<>>)
    ELSE LET of(pts) ==
                 (IF sh.fill
                  THEN <<Call("fillPolygon", <<pts, parseColorSafe(sh.fillColor)>>)>>
                  ELSE <<>>)
                 \o [i \in 1..3 |->
                        Call("drawLine", <<pts[i], pts[(i % 3) + 1], parseColorSafe(sh.color)>>)]
         IN  Returned(of(vpToCanvas(gref[1], sh.points)))

DrawableText_new(text, pos, opts) ==
    Drawable_new("DrawableText", OrElse(opts.color, Chars_white), FALSE, Null)
        @@ [text |-> text, pos |-> pos, align |-> OrElse(opts.align, "left"),
            baseline |-> OrElse(opts.baseline, "alphabetic")]

DrawableText_draw(sh, gref) ==
    IF gref = Undefined THEN Threw("TypeError", <<>>)
    ELSE Returned(<<Call("drawText", <<sh.text, vpToCanvas(gref[1], <<sh.pos>>)[1], sh.color,
                                       sh.align, sh.baseline>>)>>)

DrawableLabel_new(text, pos, opts) ==
    Drawable_new("DrawableLabel", OrElse(opts.color, Chars_white), FALSE, Null)
        @@ [mode |-> OrElse(opts.mode, "world"), text |-> text, pos |-> pos,
            align |-> OrElse(opts.align, "left"),
            baseline |-> OrElse(opts.baseline, "alphabetic")]

\* in canvas mode the graph is never looked at
DrawableLabel_draw(sh, gref) ==
    IF sh.mode # "canvas" /\ gref = Undefined THEN Threw("TypeError", <<>>)
    ELSE Returned(<<Call("drawText",
                         <<sh.text,
                           IF sh.mode = "canvas" THEN sh.pos
                           ELSE vpToCanvas(gref[1], <<sh.pos>>)[1],
                           sh.color, sh.align, sh.baseline>>)>>)

\* the earlier script's DrawableFunction: a path on the 2d context
DrawableFunction0_new(data, color, fill, fillColor) ==
    [data |-> data, color |-> color, class |-> "DrawableFunction", fill |-> fill,
     fillColor |-> fillColor, srev |-> 1]

DrawableFunction0_draw(sh, gref) ==
    IF gref = Undefined THEN Threw("Graph reference required", <<>>)
    ELSE IF Len(sh.data) = 0 THEN Returned(<<>>)
    ELSE LET g == gref[1]
             n == Len(sh.data)
             \* pts holds the data points and then the two points on the x axis
             of(pts) ==
                 <<Call("beginPath", <<sh.color>>), Call("moveTo", pts[1])>>
                 \o [i \in 1..(n - 1) |-> Call("lineTo", pts[i + 1])]
                 \o (IF sh.fill
                     THEN <<Call("lineTo", pts[n + 1]), Call("lineTo", pts[n + 2]),
                            Call("closePath", <<>>), Call("fill", <<sh.fillColor>>)>>
                     ELSE <<>>)
                 \o <<Call("stroke", <<>>)>>
             world == sh.data \o <<V2(sh.data[n][1], Q(0)), V2(sh.data[1][1], Q(0))>>
         IN  Returned(of([i \in 1..(n + 2) |->
                             worldToCanvas1(g.wb, g.vp, g.pa, world[i][1], world[i][2])]))

\* shape.draw(app, graph)
Shape_draw(sh, gref) ==
    IF sh.srev = 1 THEN DrawableFunction0_draw(sh, gref)
    ELSE CASE sh.class = "DrawableFunction" -> DrawableFunction_draw(sh, gref)
           [] sh.class = "DrawableCircle" -> DrawableCircle_draw(sh, gref)
           [] sh.class = "DrawableLine" -> DrawableLine_draw(sh, gref)
           [] sh.class = "DrawablePoint" -> DrawablePoint_draw(sh, gref)
           [] sh.class = "DrawableTriangle" -> DrawableTriangle_draw(sh, gref)
           [] sh.class = "DrawableText" -> DrawableText_draw(sh, gref)
           [] sh.class = "DrawableLabel" -> DrawableLabel_draw(sh, gref)

----------------------------------------------------------------------------
(* renderer.ts, its earlier revision (in types.ts; rrev 2 and 1) and the   *)
(* SceneManager of scene.ts.  A renderer is the record of its canvas size, *)
(* its buffer and two marks: whether the buffer was cleared, and whether a *)
(* draw of the whole scene completed, since the buffer was last resized;   *)
(* first tells what the first render after that resize presented.  A       *)
(* handler that throws leaves the state it reached and threw = TRUE.       *)

Background == <<19, 19, 19, 255>>      \* parseColor("#131313")

Renderer(cv, w, h, px, cleared, drawn, first, sh, threw) ==
    [h |-> h, w |-> w, sh |-> sh, px |-> px, cv |-> cv, cleared |-> cleared,
     drawn |-> drawn, first |-> first, threw |-> threw]

\* PixelBuffer.resize(width, height): a new ImageData, nothing is kept
PixelBuffer_resize(a, w, h) ==
    [a EXCEPT !.w = DimOf(w), !.h = DimOf(h),
              !.px = ImageDataBytes(DimOf(w), DimOf(h)),
              !.cleared = FALSE, !.drawn = FALSE, !.first = "none"]

\* CanvasRenderer.clear(): this.buffer.clear("#131313")
CanvasRenderer_clear(a) ==
    [a EXCEPT !.px = clear(a.px, Background), !.cleared = TRUE, !.drawn = FALSE]

\* CanvasRenderer.render(): putImageData(this.buffer.imageData, 0, 0)
CanvasRenderer_render(a) ==
    [a EXCEPT !.sh = a.px,
              !.first = IF a.first # "none" THEN a.first
                        ELSE IF a.cleared /\ a.drawn THEN "full" ELSE "stale"]

\* Scene.draw(app, vp): every drawable in turn; one with visible === false is
\* passed over, one whose draw throws ends the loop
RECURSIVE Scene_drawFrom(_, _, _)
Scene_drawFrom(a, sc, i) ==
    IF i > Len(sc) THEN [a EXCEPT !.drawn = TRUE]
    ELSE IF sc[i] = "hidden" THEN Scene_drawFrom(a, sc, i + 1)
    ELSE IF sc[i] = "throws" THEN [a EXCEPT !.threw = TRUE]
    ELSE Scene_drawFrom([a EXCEPT !.px = putPixel(a.px, a.w, a.h, Num(0), Num(0),
                                                  <<255, 0, 0, 255>>)], sc, i + 1)
Scene_draw(a, sc) == Scene_drawFrom(a, sc, 1)

\* a redraw that leaves out the clear
renderAll_noClear(a, sc) ==
    LET drawnOn(b) == IF b.threw THEN b ELSE CanvasRenderer_render(b)
    IN  drawnOn(Scene_draw(a, sc))

\* SceneManager.renderAll() for its entry, and CanvasRenderer.renderAll():
\* clear, draw, render
renderAll(a, sc) ==
    LET drawnOn(b) == IF b.threw THEN b ELSE CanvasRenderer_render(b)
    IN  drawnOn(Scene_draw(CanvasRenderer_clear(a), sc))

\* canvas.width = v : an unsigned long, the fraction of v (in halves) is dropped
CanvasLength(h) == TruncH(h)

\* DynamicCanvasRenderer.resize(): rect is the container's bounding rect, d
\* window.devicePixelRatio in halves (0 when it is missing); the earlier
\* revision does not read it
DynamicCanvasRenderer_resize(a, rv, rect, d) ==
    LET ratio == IF rv = 1 \/ d = 0 THEN 2 ELSE d
        sized(w, h) ==
            PixelBuffer_resize([a EXCEPT !.cv = <<CanvasLength(w * ratio), CanvasLength(h * ratio)>>],
                               Num(w), Num(h))
    IN  sized(Max(1, ToInt32(rect[1])), Max(1, ToInt32(rect[2])))

\* CanvasRenderer.onResize() of the earlier revision: win is the window's
\* inner size; an exception of renderAll ends the listener
CanvasRenderer_onResize(a, sc, win) ==
    LET sized(w, h) == PixelBuffer_resize([a EXCEPT !.cv = <<w, h>>], Num(w), Num(h))
    IN  renderAll(sized(ToInt32(win[1]), ToInt32(win[2])), sc)

\* the window's "resize" listeners in the order they were added: the
\* CanvasRenderer's (earlier revision), then the DynamicCanvasRenderer's; an
\* exception in a listener is reported and the next listener runs
resizeListeners(a, rv, sc, rect, d, win) ==
    LET own == IF rv = 1 THEN CanvasRenderer_onResize(a, sc, win) ELSE a
    IN  DynamicCanvasRenderer_resize([own EXCEPT !.threw = FALSE], rv, rect, d)

\* SceneManager.resizeAll(): host.resize() (the entry has no viewport)
SceneManager_resizeAll(a, rv, rect, d) == DynamicCanvasRenderer_resize(a, rv, rect, d)

\* The SceneManager and the browser's frame requests: id is this._rafId (0 for
\* null, the handles start at 1),
\* reqs the requested callbacks <<handle, onFrame>>, next the next handle;
\* stopped and ran are the history of stopLoop.
Manager(id, reqs, next, stop, ran) ==
    [id |-> id, reqs |-> reqs, next |-> next, stop |-> stop, ran |-> ran]

requestAnimationFrame(m, onFrame) ==
    [m EXCEPT !.id = m.next, !.reqs = m.reqs \cup {<<m.next, onFrame>>}, !.next = m.next + 1]

\* startLoop(onFrame)
SceneManager_startLoop(m, onFrame) ==
    IF m.id # 0 THEN m
    ELSE [requestAnimationFrame(m, onFrame) EXCEPT !.stop = FALSE, !.ran = {}]

\* stopLoop(): cancelAnimationFrame(this._rafId) takes back a request that has
\* not run yet, and does nothing for the handle of a callback that is running
SceneManager_stopLoop(m) ==
    IF m.id # 0
    THEN [m EXCEPT !.reqs = {r \in m.reqs : r[1] # m.id}, !.id = 0,
                   !.stop = TRUE, !.ran = {}]
    ELSE [m EXCEPT !.stop = TRUE, !.ran = {}]

\* what runs is noted when stopLoop has returned and startLoop was not called since
Ran(m, what) == IF m.stop THEN [m EXCEPT !.ran = m.ran \cup {what}] ELSE m

\* onFrame?.(t): no callback, one that only animates, one that calls
\* stopLoop(), one that calls stopLoop() and startLoop() again
callOnFrame(m, onFrame) ==
    IF onFrame = "none" THEN m
    ELSE IF onFrame = "animate" THEN Ran(m, "onFrame")
    ELSE IF onFrame = "stop" THEN SceneManager_stopLoop(Ran(m, "onFrame"))
    ELSE SceneManager_startLoop(SceneManager_stopLoop(Ran(m, "onFrame")), onFrame)

\* the callback of startLoop: onFrame, renderAll, and the next request unless
\* renderAll threw
loop(m, a, sc, onFrame) ==
    LET rendered(m1, b) ==
            [a |-> b, m |-> IF b.threw THEN m1 ELSE requestAnimationFrame(m1, onFrame)]
    IN  rendered(Ran(callOnFrame(m, onFrame), "renderAll"), renderAll(a, sc))

----------------------------------------------------------------------------
(* CanvasRenderer.drawText.  Strings are sequences of characters.  What the *)
(* browser's 2d context does is given by metrics (measureText: width,        *)
(* ascent, descent, in halves) and by fillText below.                        *)

TextCacheCapacity == 512          \* new TextCache(512)

\* `${text}|${font}|${color}`
cacheKey(text, font, color) == text \o <<"|">> \o font \o <<"|">> \o color

\* ctx.fillStyle = color, for the colour strings drawn here
fillStyle(color) == IF color = Chars_red THEN <<255, 0, 0, 255>> ELSE <<0, 0, 255, 255>>

\* clearRect, fillText(text, 2, 2) and getImageData(0, 0, w, h): transparent
\* but for the text, which has a covered pixel at (2, 2) and a half-covered
\* one to its right
fillText(w, h, col) ==
    Image(w, h,
          [i \in 1..(w * h * 4) |->
              LET q == (i - 1) \div 4
                  ch == (i - 1) % 4
              IN  IF q = 2 * w + 2 THEN col[ch + 1]
                  ELSE IF q = 2 * w + 3 THEN (IF ch = 3 THEN 128 ELSE col[ch + 1])
                  ELSE 0])

\* lines 71-89: the bitmap of a miss
rasterizeText(color, metrics) ==
    LET w == CeilH(metrics[1] + 8)
        h == CeilH((IF metrics[2] = 0 THEN 20 ELSE metrics[2])
                   + (IF metrics[3] = 0 THEN 8 ELSE metrics[3]) + 8)
    IN  fillText(w, h, fillStyle(color))

\* what drawText gives: the buffer, the cache, and whether the key was found
Drawn(p, m, hit, entry, hu) == [map |-> m, hung |-> hu, hit |-> hit, px |-> p, entry |-> entry]

\* a drawText that does not store what it rasterized
drawText_noStore(p, w, h, m, cap, text, pos, color, font, align, baseline, metrics) ==
    LET got == TextCache_get(m, cacheKey(text, font, color))
        entry == IF got.ret = Null THEN rasterizeText(color, metrics) ELSE got.ret
    IN  Drawn(blit(p, w, h, entry, Num(TruncH(pos[1] + 1)), Num(TruncH(pos[2] + 1))),
              got.map, got.ret # Null, entry, FALSE)

\* drawText(text, pos, color, font, align, baseline); pos in halves
drawText(p, w, h, m, cap, text, pos, color, font, align, baseline, metrics) ==
    LET key == cacheKey(text, font, color)
        got == TextCache_get(m, key)
        entry == IF got.ret = Null THEN rasterizeText(color, metrics) ELSE got.ret
        kept == IF got.ret = Null THEN TextCache_set(got.map, cap, key, entry)
                ELSE [map |-> got.map, hung |-> FALSE]
        \* ox, oy in halves
        ox == IF align = "center" THEN -entry.w
              ELSE IF align \in {"right", "end"} THEN -2 * entry.w ELSE 0
        oy == IF baseline = "middle" THEN -entry.h
              ELSE IF baseline \in {"bottom", "ideographic", "alphabetic"} THEN -2 * entry.h
              ELSE 0
    IN  Drawn(IF kept.hung THEN p
              ELSE blit(p, w, h, entry, Num(TruncH(pos[1] + ox + 1)), Num(TruncH(pos[2] + oy + 1))),
              kept.map, got.ret # Null, entry, kept.hung)

----------------------------------------------------------------------------
(* History of the last operation *)

NoNum == JS(0, 0)
NoImage == Image(0, 0, <<>>)
NoPts == <<>>
Op(op, x, y, c, src) ==
    [x |-> x, r |-> 0, y |-> y, c |-> c, src |-> src, pts |-> NoPts, op |-> op]
RasterOp(op, pts, r, c) ==
    [x |-> NoNum, r |-> r, y |-> NoNum, c |-> c, src |-> NoImage, pts |-> pts, op |-> op]

----------------------------------------------------------------------------
(* Histories of the other classes, and the state a specification leaves idle *)

NoKeyInfo == [k \in {} |-> 0]
CacheOp(op, key, ret, before, st, hw) ==
    [stamp |-> st, how |-> hw, ret |-> ret, key |-> key, op |-> op, before |-> before]
NoPt == <<>>
ViewOp(op, in, out, from) == [from |-> from, out |-> out, op |-> op, in |-> in]

CacheIdle ==
    /\ capacity = 0 /\ map = <<>> /\ hung = FALSE
    /\ stamp = NoKeyInfo /\ how = NoKeyInfo
    /\ clast = CacheOp("none", 0, Null, <<>>, NoKeyInfo, NoKeyInfo)
NoGraph == <<>>
GraphIdle == graph = NoGraph /\ issued = <<>>
ViewIdle ==
    /\ GraphIdle
    /\ rev = 0
    /\ worldBounds = Bounds(Q(0), Q(1), Q(0), Q(1))
    /\ viewport = Rect(Q(0), Q(0), Q(1), Q(1))
    /\ preserveAspect = "none"
    /\ xTicks = <<>> /\ yTicks = <<>>
    /\ vlast = ViewOp("none", NoPt, NoPt, NoPt)
SceneIdle ==
    /\ rrev = 0 /\ container = <<>> /\ dpr = 0 /\ canvasDim = <<>> /\ scene = <<>>
    /\ rafId = 0 /\ timer = FALSE /\ pending = {} /\ nextId = 1
    /\ marks = <<>> /\ shown = <<>>
    /\ stopped = FALSE /\ afterStop = {}
    /\ raster = NoKeyInfo
    /\ slast = <<>>
    /\ line = NoLine
BufIdle ==
    /\ width = 1 /\ height = 1 /\ pixels = <<0, 0, 0, 0>>
    /\ last = Op("none", NoNum, NoNum, Null, NoImage)
    /\ prev = <<>>

----------------------------------------------------------------------------
(* Actions on the PixelBuffer *)

Step == nops < MaxOps /\ nops' = nops + 1 /\ UNCHANGED <<cacheVars, viewVars, sceneVars, line>>

\* new PixelBuffer(w, h)
Construct(w, h) ==
    /\ width = DimOf(w)
    /\ height = DimOf(h)
    /\ pixels = ImageDataBytes(DimOf(w), DimOf(h))
    /\ last = Op("new", w, h, Null, NoImage)
    /\ prev = <<>>
    /\ nops = 0
    /\ CacheIdle
    /\ ViewIdle
    /\ SceneIdle

Resize(w, h) ==
    /\ Step
    /\ width' = DimOf(w)
    /\ height' = DimOf(h)
    /\ pixels' = ImageDataBytes(DimOf(w), DimOf(h))
    /\ last' = Op("resize", w, h, Null, NoImage)
    /\ prev' = pixels

Clear(c) ==
    /\ Step
    /\ pixels' = clear(pixels, c)
    /\ last' = Op("clear", NoNum, NoNum, c, NoImage)
    /\ prev' = pixels
    /\ UNCHANGED <<width, height>>

PutPixel(x, y, c) ==
    /\ Step
    /\ pixels' = putPixel(pixels, width, height, x, y, c)
    /\ last' = Op("putPixel", x, y, c, NoImage)
    /\ prev' = pixels
    /\ UNCHANGED <<width, height>>

PutPixelBlend(x, y, c) ==
    /\ Step
    /\ pixels' = putPixelBlend(pixels, width, height, x, y, c)
    /\ last' = Op("putPixelBlend", x, y, c, NoImage)
    /\ prev' = pixels
    /\ UNCHANGED <<width, height>>

Blit(src, dx, dy) ==
    /\ Step
    /\ pixels' = blit(pixels, width, height, src, dx, dy)
    /\ last' = Op("blit", dx, dy, Null, src)
    /\ prev' = pixels
    /\ UNCHANGED <<width, height>>

----------------------------------------------------------------------------
(* Inputs *)

\* requested dimensions: -1, 0.5, 1.5, the largest side, 2^32
DimRequests == {JS(0, -2), JS(0, 1), JS(0, 3), Num(MaxDim), JS(1, 0)}

\* pixel coordinates: -0.5, the first and last column of the largest buffer,
\* one past it, 2^32
Coords == {JS(0, -1), Num(0), Num(MaxDim - 1), Num(MaxDim), JS(1, 0)}

\* blit offsets: -1, 0, 2^32
Offsets == {Num(-1), Num(0), JS(1, 0)}

Red == <<255, 0, 0, 255>>
Colors == {Red}
BlendColors == {<<10, 20, 30, 0>>, <<0, 0, 255, 128>>}
ClearColors == {Null, <<10, 20, 30, 0>>, <<200, 100, 50, 128>>}

Images == {Image(1, 1, <<255, 0, 0, 255>>),
           Image(2, 1, <<0, 255, 0, 128, 9, 9, 9, 0>>)}

----------------------------------------------------------------------------
(* The PixelBuffer under arbitrary sequences of its operations *)

BufInit == \E w, h \in DimRequests : Construct(w, h)

BufNext ==
    \/ \E w, h \in DimRequests : Resize(w, h)
    \/ \E c \in ClearColors : Clear(c)
    \/ \E x, y \in Coords, c \in Colors : PutPixel(x, y, c)
    \/ \E x, y \in Coords, c \in BlendColors : PutPixelBlend(x, y, c)
    \/ \E s \in Images, dx, dy \in Offsets : Blit(s, dx, dy)

SpecBuf == BufInit /\ [][BufNext]_vars

----------------------------------------------------------------------------
(* Actions of the rasterizers (on app.buffer) *)

RawLine(p0, p1, c) ==
    /\ Step
    /\ pixels' = rawLine(pixels, width, height, p0, p1, c)
    /\ last' = RasterOp("rawLine", <<p0, p1>>, 0, c)
    /\ prev' = pixels
    /\ UNCHANGED <<width, height>>

DrawLine(p0, p1, c, wd) ==
    /\ Step
    /\ pixels' = drawLine(pixels, width, height, p0, p1, c, wd)
    /\ last' = RasterOp("drawLine", <<p0, p1>>, wd, c)
    /\ prev' = pixels
    /\ UNCHANGED <<width, height>>

FillCircle(ctr, r, c) ==
    /\ Step
    /\ pixels' = fillCircle(pixels, width, height, ctr, r, c)
    /\ last' = RasterOp("fillCircle", <<ctr>>, r, c)
    /\ prev' = pixels
    /\ UNCHANGED <<width, height>>

FillPolygon(pts, c) ==
    /\ Step
    /\ pixels' = fillPolygon(pixels, width, height, pts, c)
    /\ last' = RasterOp("fillPolygon", pts, 0, c)
    /\ prev' = pixels
    /\ UNCHANGED <<width, height>>

\* rawLine(app, p0, p1, color) is called
RawLineCall(p0, p1, c) ==
    /\ line.pc # "loop"
    /\ nops < MaxOps
    /\ nops' = nops + 1
    /\ line' = rawLine_enter(p0, p1)
    /\ last' = RasterOp("rawLine", <<p0, p1>>, 0, c)
    /\ prev' = pixels
    /\ UNCHANGED <<width, height, pixels, cacheVars, viewVars, sceneVars>>

\* one iteration of its loop
RawLineIterate ==
    /\ line.pc = "loop"
    /\ line.n < MaxSteps
    /\ pixels' = putPixelBlend(pixels, width, height, Num(line.x0), Num(line.y0), last.c)
    /\ line' = rawLine_iterate(line)
    /\ UNCHANGED <<width, height, last, prev, nops, cacheVars, viewVars, sceneVars>>

\* points in halves: inside, on the far edge, fractional, left of the buffer
RasterPts == {<<2, 2>>, <<2 * (RasterDim - 1), 2>>, <<3, 2 * (RasterDim - 1)>>,
              <<-2, 4>>, <<4, 4>>}
\* radii in halves: negative, zero, 1, 1.5, 2
Radii == {-2, 0, 2, 3, 4}
RasterColors == {Red, <<0, 0, 255, 128>>}
Polys == {<<>>, << <<2, 2>> >>, << <<2, 2>>, <<4, 4>> >>,
          << <<0, 0>>, <<2 * (RasterDim - 1), 0>>, <<0, 2 * (RasterDim - 1)>> >>,
          << <<2, 2>>, <<6, 2>>, <<6, 6>>, <<2, 6>> >>}
AxisParallel(p0, p1) == p0[1] = p1[1] \/ p0[2] = p1[2]

RasterInit == Construct(Num(RasterDim), Num(RasterDim))

RasterNext ==
    \/ \E c \in {Null, <<19, 19, 19, 255>>} : Clear(c)
    \/ \E p0, p1 \in RasterPts, c \in RasterColors : RawLine(p0, p1, c)
    \/ \E p0, p1 \in RasterPts, c \in RasterColors, wd \in {1, 3} :
          (wd > 1 => AxisParallel(p0, p1)) /\ DrawLine(p0, p1, c, wd)
    \/ \E ctr \in RasterPts, r \in Radii, c \in RasterColors : FillCircle(ctr, r, c)
    \/ \E pts \in Polys, c \in RasterColors : FillPolygon(pts, c)

SpecRaster == RasterInit /\ [][RasterNext]_vars

----------------------------------------------------------------------------
(* rawLine, iteration by iteration *)

\* the points of the rasterizer runs, and two points 2^30 pixels apart
LinePts == RasterPts \cup {<<-(2 ^ 30), 0>>, <<2 ^ 30, 0>>}

LineInit == Construct(Num(RasterDim), Num(RasterDim))

LineNext ==
    \/ \E p0, p1 \in LinePts, c \in RasterColors : RawLineCall(p0, p1, c)
    \/ RawLineIterate

SpecLine == LineInit /\ [][LineNext]_vars

----------------------------------------------------------------------------
(* A CanvasRenderer drawing text, frame after frame, its buffer resized in *)
(* between.  raster is the list of the drawText calls and resizes so far:  *)
(* <<triple, "miss" or "hit">>, and <<<<>>, "resize">>.                      *)

TextStep ==
    /\ nops < MaxTextOps /\ nops' = nops + 1
    /\ UNCHANGED <<stamp, how, clast, viewVars, line>>
    /\ UNCHANGED <<rrev, container, dpr, canvasDim, scene, rafId, timer, pending, nextId,
                   marks, shown, stopped, afterStop, slast>>

\* new CanvasRenderer(canvas) with a canvas of RasterDim x RasterDim; cap is
\* the capacity of its TextCache
TextConstruct(cap) ==
    /\ width = RasterDim /\ height = RasterDim
    /\ pixels = ImageDataBytes(RasterDim, RasterDim)
    /\ last = Op("new", Num(RasterDim), Num(RasterDim), Null, NoImage)
    /\ prev = <<>>
    /\ capacity = cap /\ map = <<>> /\ hung = FALSE
    /\ stamp = NoKeyInfo /\ how = NoKeyInfo
    /\ clast = CacheOp("new", 0, Null, <<>>, NoKeyInfo, NoKeyInfo)
    /\ nops = 0
    /\ ViewIdle
    /\ SceneIdle

DrawText(text, pos, color, font, align, baseline, metrics) ==
    /\ TextStep
    /\ ~hung
    /\ LET d == drawText(pixels, width, height, map, capacity,
                         text, pos, color, font, align, baseline, metrics)
       IN  /\ pixels' = d.px
           /\ map' = d.map
           /\ hung' = d.hung
           /\ raster' = Append(raster, << <<text, font, color>>, IF d.hit THEN "hit" ELSE "miss">>)
           /\ last' = Op("drawText", Num(pos[1]), Num(pos[2]), Null, d.entry)
    /\ prev' = pixels
    /\ UNCHANGED <<width, height, capacity>>

\* app.buffer.resize(w, h), as DynamicCanvasRenderer.resize() calls it
TextResize(w, h) ==
    /\ TextStep
    /\ width' = DimOf(w)
    /\ height' = DimOf(h)
    /\ pixels' = ImageDataBytes(DimOf(w), DimOf(h))
    /\ last' = Op("resize", w, h, Null, NoImage)
    /\ prev' = pixels
    /\ raster' = Append(raster, << <<>>, "resize">>)
    /\ UNCHANGED <<capacity, map, hung>>

\* <<text, font, color>>
Triples == {<< <<"a">>, <<"c">>, Chars_red >>,
            << <<"a">>, <<"c">>, Chars_blue >>,
            << <<"a", "|", "b">>, <<"c">>, Chars_red >>,
            << <<"a">>, <<"b", "|", "c">>, Chars_red >>}
\* <<align, baseline>>
Placements == {<<"left", "top">>, <<"center", "alphabetic">>}
\* measureText: width 1, ascent 0.5, descent 0.5; no width and no descent
Metrics == {<<2, 1, 1>>, <<0, 1, 0>>}

TextInit == \E cap \in {1, MaxCap, TextCacheCapacity} : TextConstruct(cap)

TextNext ==
    \/ \E t \in Triples, at \in Placements, metrics \in Metrics :
          DrawText(t[1], <<0, 0>>, t[3], t[2], at[1], at[2], metrics)
    \/ TextResize(Num(RasterDim), Num(3))

SpecText == TextInit /\ [][TextNext]_vars

----------------------------------------------------------------------------
(* fillPolygon on convex polygons with integer vertices, on a blank buffer *)

\* twice the signed area of the triangle a, b, c
Cross(a, b, c) == (b[1] - a[1]) * (c[2] - b[2]) - (b[2] - a[2]) * (c[1] - b[1])

\* the pixel corners of the buffer, in halves
Corners == {<<2 * x, 2 * y>> : x \in 0..(RasterDim - 1), y \in 0..(RasterDim - 1)}
Before2(a, b) == a[1] < b[1] \/ (a[1] = b[1] /\ a[2] < b[2])
\* every triangle up to translation (it touches the left and the top side of
\* the buffer), and the rectangles at the origin
Triangles ==
    {t \in Corners \X Corners \X Corners :
        /\ Before2(t[1], t[2]) /\ Before2(t[2], t[3])
        /\ Cross(t[1], t[2], t[3]) # 0
        /\ \E i \in 1..3 : t[i][1] = 0
        /\ \E i \in 1..3 : t[i][2] = 0}
Rectangles ==
    {<< <<0, 0>>, <<2 * a, 0>>, <<2 * a, 2 * b>>, <<0, 2 * b>> >> :
        a \in 1..(RasterDim - 1), b \in 1..(RasterDim - 1)}
ConvexPolys == Triangles \cup Rectangles

\* a buffer still blank when the last operation of a run is applied
PolyInit ==
    /\ width = RasterDim /\ height = RasterDim
    /\ pixels = ImageDataBytes(RasterDim, RasterDim)
    /\ last = Op("new", Num(RasterDim), Num(RasterDim), Null, NoImage)
    /\ prev = <<>>
    /\ nops = MaxOps - 1
    /\ CacheIdle
    /\ ViewIdle
    /\ SceneIdle

PolyNext == \E pts \in ConvexPolys, c \in RasterColors : FillPolygon(pts, c)

SpecPoly == PolyInit /\ [][PolyNext]_vars

----------------------------------------------------------------------------
(* The TextCache under arbitrary sequences of get, set and clear *)

Keys == 1..(MaxCap + 1)
Bitmap(k) == <<"bitmap", k>>
CapRequests == {JS(0, h) : h \in 0..(2 * MaxCap + 1)}
Touch(f, k, v) == [j \in (DOMAIN f) \cup {k} |-> IF j = k THEN v ELSE f[j]]

CacheStep ==
    nops < MaxCacheOps /\ nops' = nops + 1 /\ UNCHANGED <<bufVars, viewVars, sceneVars, line>>

\* new TextCache(capacity)
CacheConstruct(req) ==
    /\ capacity = TextCache_capacity(req)
    /\ map = <<>>
    /\ hung = FALSE
    /\ stamp = NoKeyInfo
    /\ how = NoKeyInfo
    /\ clast = CacheOp("new", 0, Null, <<>>, NoKeyInfo, NoKeyInfo)
    /\ nops = 0
    /\ BufIdle
    /\ ViewIdle
    /\ SceneIdle

CacheGet(k) ==
    /\ CacheStep
    /\ ~hung
    /\ LET g == TextCache_get(map, k)
       IN  /\ map' = g.map
           /\ clast' = CacheOp("get", k, g.ret, map, stamp, how)
           /\ stamp' = IF g.ret # Null THEN Touch(stamp, k, nops + 1) ELSE stamp
           /\ how' = IF g.ret # Null THEN Touch(how, k, "get") ELSE how
    /\ UNCHANGED <<capacity, hung>>

CacheSet(k) ==
    /\ CacheStep
    /\ ~hung
    /\ LET r == TextCache_set(map, capacity, k, Bitmap(k))
       IN  /\ map' = r.map
           /\ hung' = r.hung
    /\ clast' = CacheOp("set", k, Null, map, stamp, how)
    /\ stamp' = Touch(stamp, k, nops + 1)
    /\ how' = Touch(how, k, "set")
    /\ UNCHANGED capacity

CacheClear ==
    /\ CacheStep
    /\ ~hung
    /\ map' = TextCache_clear(map)
    /\ clast' = CacheOp("clear", 0, Null, map, stamp, how)
    /\ UNCHANGED <<capacity, hung, stamp, how>>

CacheInit == \E req \in CapRequests : CacheConstruct(req)

CacheNext ==
    \/ \E k \in Keys : CacheGet(k)
    \/ \E k \in Keys : CacheSet(k)
    \/ CacheClear

SpecCache == CacheInit /\ [][CacheNext]_vars

----------------------------------------------------------------------------
(* The ViewportManager: construction, reconfiguration and the two mappings *)

ViewFrame == UNCHANGED <<bufVars, cacheVars, sceneVars, line, nops, graph, issued>>
GraphFrame == UNCHANGED <<bufVars, cacheVars, sceneVars, line, nops>>

Revs == {1, 2}
Policies == {"bool:false", "bool:true", "none", "square", "fit", "cover"}
ProperBounds == {Bounds(Q(0), Q(10), Q(0), Q(10)), Bounds(Q(-2), Q(2), Q(0), Q(1)),
                 Bounds(Norm(1, 2), Q(3), Q(-1), Q(4))}
\* zero and inverted spans, as the public field of rev 1 can hold them
DegenerateBounds == {Bounds(Q(1), Q(1), Q(0), Q(2)), Bounds(Q(0), Q(4), Q(3), Q(1))}
Rects == {Rect(Q(0), Q(0), Q(100), Q(100)), Rect(Q(10), Q(5), Q(30), Q(20)),
          Rect(Q(0), Q(0), Q(3), Q(7)), Rect(Q(0), Q(0), Q(0), Q(5))}
WorldPts == {V2(Q(0), Q(10)), V2(Q(5), Q(5)), V2(Norm(1, 3), Norm(-7, 2)), V2(Q(10), Q(0))}
CanvasPts == {V2(Q(0), Q(0)), V2(Q(50), Norm(25, 2))}

PositiveSpans == RLT(worldBounds.xMin, worldBounds.xMax) /\ RLT(worldBounds.yMin, worldBounds.yMax)
PositiveRect == RGT(viewport.width, Q(0)) /\ RGT(viewport.height, Q(0))

\* worldBounds || { xMin: 0, xMax: 1, yMin: 0, yMax: 1 }
OrDefault(b) == IF b = Null THEN Bounds(Q(0), Q(1), Q(0), Q(1)) ELSE b

\* new ViewportManager(app, worldBounds, viewport, preserveAspect); the
\* constructor of rev 2 passes the bounds through updateWorld
ViewConstruct(r, b, vp, pa) ==
    /\ rev = r
    /\ worldBounds = IF r = 2 THEN updateWorld(OrDefault(b)) ELSE OrDefault(b)
    /\ xTicks = IF r = 2 THEN ticksOf(worldBounds, "x", NumTicks) ELSE <<>>
    /\ yTicks = IF r = 2 THEN ticksOf(worldBounds, "y", NumTicks) ELSE <<>>
    /\ viewport = vp
    /\ preserveAspect = pa
    /\ vlast = ViewOp("new", b, NoPt, NoPt)
    /\ nops = 0
    /\ GraphIdle
    /\ SceneIdle
    /\ BufIdle
    /\ CacheIdle

\* updateWorld(bounds) of rev 2, bounds being null when the argument is left
\* out; in rev 1 worldBounds is assigned as given
UpdateWorld(b) ==
    /\ worldBounds' = IF rev = 2 THEN (IF b = Null THEN worldBounds ELSE updateWorld(b)) ELSE b
    /\ xTicks' = IF rev = 2 THEN ticksOf(worldBounds', "x", NumTicks) ELSE xTicks
    /\ yTicks' = IF rev = 2 THEN ticksOf(worldBounds', "y", NumTicks) ELSE yTicks
    /\ vlast' = ViewOp("updateWorld", b, NoPt, NoPt)
    /\ UNCHANGED <<rev, viewport, preserveAspect>>
    /\ ViewFrame

\* the layout function of a responsive viewport returns another rectangle
SetViewport(vp) ==
    /\ viewport' = vp
    /\ vlast' = ViewOp("viewport", NoPt, NoPt, NoPt)
    /\ UNCHANGED <<rev, worldBounds, preserveAspect, xTicks, yTicks>>
    /\ ViewFrame

\* preserveAspect is a public field
SetPreserveAspect(pa) ==
    /\ preserveAspect' = pa
    /\ vlast' = ViewOp("preserveAspect", NoPt, NoPt, NoPt)
    /\ UNCHANGED <<rev, worldBounds, viewport, xTicks, yTicks>>
    /\ ViewFrame

\* get scale()
GetScale ==
    /\ vlast' = ViewOp("scale", NoPt,
                       IF rev = 2 THEN scale(worldBounds, viewport, preserveAspect)
                       ELSE scale1(worldBounds, viewport, preserveAspect),
                       NoPt)
    /\ UNCHANGED <<rev, worldBounds, viewport, preserveAspect, xTicks, yTicks>>
    /\ ViewFrame

\* the corners of the world rectangle: top left, bottom right
TopLeft == V2(worldBounds.xMin, worldBounds.yMax)
BottomRight == V2(worldBounds.xMax, worldBounds.yMin)

WorldToCanvas(p) ==
    /\ vlast' = ViewOp("worldToCanvas", p,
                       IF rev = 2
                       THEN worldToCanvas(worldBounds, viewport, preserveAspect, p[1], p[2])
                       ELSE worldToCanvas1(worldBounds, viewport, preserveAspect, p[1], p[2]),
                       NoPt)
    /\ UNCHANGED <<rev, worldBounds, viewport, preserveAspect, xTicks, yTicks>>
    /\ ViewFrame

\* canvasToWorld(p); from records the world point p is the image of when p is
\* what the preceding worldToCanvas returned
CanvasToWorld(p) ==
    /\ vlast' = ViewOp("canvasToWorld", p,
                       IF rev = 2
                       THEN canvasToWorld(worldBounds, viewport, preserveAspect, p[1], p[2])
                       ELSE canvasToWorld1(worldBounds, viewport, preserveAspect, p[1], p[2]),
                       IF vlast.op = "worldToCanvas" /\ vlast.out = p THEN vlast.in ELSE NoPt)
    /\ UNCHANGED <<rev, worldBounds, viewport, preserveAspect, xTicks, yTicks>>
    /\ ViewFrame

ViewInit ==
    \E r \in Revs, b \in ProperBounds, vp \in Rects, pa \in Policies : ViewConstruct(r, b, vp, pa)

ViewNext ==
    \/ \E b \in ProperBounds \cup (IF rev = 1 THEN DegenerateBounds ELSE {}) : UpdateWorld(b)
    \/ \E vp \in Rects : SetViewport(vp)
    \/ \E pa \in Policies : SetPreserveAspect(pa)
    \/ GetScale
    \/ \E p \in WorldPts \cup {TopLeft, BottomRight} : WorldToCanvas(p)
    \/ \E p \in CanvasPts \cup (IF vlast.op = "worldToCanvas" THEN {vlast.out} ELSE {}) :
          CanvasToWorld(p)

SpecView == ViewInit /\ [][ViewNext]_vars

----------------------------------------------------------------------------
(* The world bounds of a ViewportManager (rev 2) under arbitrary sequences *)
(* of updateWorld and fitToBounds                                          *)

\* fitToBounds(boundsArray, padding)
FitToBounds(list, padding) ==
    \E fb \in {fitToBounds(viewport, preserveAspect, list, padding)} :
    \E wb \in {IF fb = Null THEN worldBounds ELSE updateWorld(fb)} :
        /\ worldBounds' = wb
        /\ xTicks' = IF fb = Null THEN xTicks ELSE ticksOf(wb, "x", NumTicks)
        /\ yTicks' = IF fb = Null THEN yTicks ELSE ticksOf(wb, "y", NumTicks)
        /\ vlast' = ViewOp("fitToBounds", <<list, padding>>, fb, NoPt)
        /\ UNCHANGED <<rev, viewport, preserveAspect>>
        /\ ViewFrame

\* boxes with two proper spans, a box about the origin, the box of a point
PlainBoxes == {Bounds(Q(0), Q(2), Q(0), Q(1)), Bounds(Q(1), Q(3), Q(-2), Q(4))}
CentredBox == Bounds(Q(-1), Q(1), Q(-1), Q(1))
PointBox == Bounds(Q(0), Q(0), Q(0), Q(0))
\* a box with a side that is not finite
OpenBox == Bounds(Q(0), Infinity, Q(0), Q(1))
\* bounds as updateWorld and the constructor may be given them: proper,
\* zero-width, inverted, far from the origin, not finite, or none
WorldRequests ==
    PlainBoxes \cup {PointBox,
                     Bounds(Q(1), Q(-1), Q(0), Q(1)),
                     Bounds(Pow10(9), Pow10(9), Q(0), Q(1)),
                     Bounds(NaN, Q(1), RNeg(Infinity), Infinity),
                     Null}
\* padding: a fraction of the span below 1, an absolute amount from 1 on
Paddings == {Q(0), Norm(1, 20), Q(2), NaN}
SmallPaddings == {Q(0), Norm(1, 20), Norm(-1, 2), Q(-1)}
\* lists with a missing entry, lists fitToBounds returns early on (empty,
\* nothing but a missing entry, a union that is not finite), lists of boxes
\* about the origin for the paddings that shrink
FitRequests ==
    (({<<a>> : a \in PlainBoxes} \cup {<<Bounds(Q(0), Q(2), Q(0), Q(1)), b>> : b \in PlainBoxes \cup {Null}})
        \X Paddings)
    \cup ({<<>>, <<Null>>, <<OpenBox>>} \X {Q(0)})
    \cup ({<<CentredBox>>, <<PointBox>>, <<PointBox, CentredBox>>} \X SmallPaddings)
WorldRects == {Rect(Q(10), Q(5), Q(30), Q(20)), Rect(Q(0), Q(0), Q(0), Q(5))}
WorldPolicies == {"bool:true", "none", "square", "fit"}

WorldInit ==
    \E b \in WorldRequests, vp \in WorldRects, pa \in WorldPolicies : ViewConstruct(2, b, vp, pa)

WorldNext ==
    \/ \E b \in WorldRequests : UpdateWorld(b)
    \/ \E f \in FitRequests : FitToBounds(f[1], f[2])
    \/ \E vp \in WorldRects : SetViewport(vp)
    \/ \E pa \in WorldPolicies : SetPreserveAspect(pa)

SpecWorld == WorldInit /\ [][WorldNext]_vars

----------------------------------------------------------------------------
(* A Graph on a ViewportManager: construction and draw *)

\* new Graph(vp, options)
GraphConstruct(gr, o) ==
    /\ graph = NoGraph
    /\ graph' = Graph_new(gr, o)
    /\ issued' = <<>>
    /\ vlast' = ViewOp("new Graph", o, NoPt, NoPt)
    /\ UNCHANGED <<rev, worldBounds, viewport, preserveAspect, xTicks, yTicks>>
    /\ GraphFrame

\* graph.draw(app) and, in the earlier revision, graph.draw(app, dataSeries):
\* the earlier draw assigns this.vp.worldBounds, the later one may change the
\* tick counts (autoScaleTicks)
GraphDraw(dataSeries) ==
    /\ graph # NoGraph
    /\ issued' = IF graph.grev = 2
                 THEN Graph_draw(graph, rev, worldBounds, viewport, preserveAspect)
                 ELSE Graph_draw0(graph, rev, worldBounds, viewport, preserveAspect, dataSeries)
    /\ graph' = IF graph.grev = 2 THEN autoTicks(graph, worldBounds, viewport) ELSE graph
    /\ worldBounds' = IF graph.grev = 2 THEN worldBounds
                      ELSE Graph_world0(graph, worldBounds, dataSeries)
    /\ vlast' = ViewOp("Graph.draw", dataSeries, NoPt, NoPt)
    /\ UNCHANGED <<rev, viewport, preserveAspect, xTicks, yTicks>>
    /\ GraphFrame

GraphRevs == {1, 2}
Flag(v) == {Undefined, Given(v)}
GraphOptions ==
    [showGrid : Flag(FALSE), showAxes : Flag(FALSE), showTicks : Flag(FALSE),
     drawBorder : Flag(TRUE), axisAtZero : Flag(FALSE),
     numTicksX : Flag(2), numTicksY : Flag(3),
     autoScale : {Undefined, Given(TRUE), Given(FALSE)}]
GraphBounds == {Bounds(Q(0), Q(10), Q(0), Q(10)), Bounds(Q(-2), Q(2), Q(0), Q(1))}
GraphRects == {Rect(Q(0), Q(0), Q(100), Q(100)), Rect(Q(10), Q(5), Q(400), Q(240))}
\* no data, or one series of two points on a horizontal line
DataSeries == {<<>>, << <<V2(Q(1), Q(2)), V2(Q(3), Q(2))>> >>}

GraphInit == \E b \in GraphBounds, vp \in GraphRects : ViewConstruct(2, b, vp, "none")

GraphNext ==
    \/ \E gr \in GraphRevs, o \in GraphOptions : GraphConstruct(gr, o)
    \/ \E ds \in DataSeries : (graph # NoGraph /\ graph.grev = 2 => ds = <<>>) /\ GraphDraw(ds)

SpecGraph == GraphInit /\ [][GraphNext]_vars

----------------------------------------------------------------------------
(* Drawing shapes: shape.draw(app, graph), with the graph given or missing *)

ShapeDraw(sh, given) ==
    /\ sh.srev = rev
    /\ \E o \in {Shape_draw(sh, IF given
                                THEN Given([pa |-> preserveAspect, wb |-> worldBounds,
                                            vp |-> viewport])
                                ELSE Undefined)} :
          /\ issued' = o.calls
          /\ vlast' = ViewOp("draw", [graph |-> given, shape |-> sh], o.out, NoPt)
    /\ UNCHANGED <<rev, worldBounds, viewport, preserveAspect, xTicks, yTicks, graph>>
    /\ GraphFrame

ShapePts == <<V2(Q(1), Q(2)), V2(Q(3), Q(2)), V2(Q(2), Q(4))>>
ShapeData == {SubSeq(ShapePts, 1, n) : n \in 0..3}
Shapes ==
    {DrawableFunction_new(d, [color |-> Undefined, fill |-> f, fillColor |-> Undefined,
                              baselineY |-> Undefined]) : d \in ShapeData, f \in Flag(TRUE)}
    \cup {DrawableCircle_new(ShapePts[1], Q(rd), [color |-> Undefined, fill |-> f,
                                                   fillColor |-> Undefined]) :
             rd \in 1..2, f \in Flag(TRUE)}
    \cup {DrawableLine_new(ShapePts[1], ShapePts[2], [width |-> wd, color |-> Undefined]) :
             wd \in Flag(1)}
    \cup {DrawablePoint_new(ShapePts[1], [color |-> Undefined, type |-> t, size |-> Undefined]) :
             t \in {Undefined, Given("cross"), Given("square")}}
    \cup {DrawableTriangle_new(ShapePts[1], ShapePts[2], ShapePts[3],
                               [color |-> Undefined, fill |-> f, fillColor |-> Undefined]) :
             f \in Flag(FALSE)}
    \cup {DrawableText_new("a", ShapePts[1], [color |-> Undefined, align |-> Undefined,
                                              baseline |-> Undefined])}
    \cup {DrawableLabel_new("a", ShapePts[1], [mode |-> m, color |-> Undefined,
                                               align |-> Undefined, baseline |-> Undefined]) :
             m \in Flag("canvas")}
    \cup {DrawableFunction0_new(d, Chars_red, f, Chars_redFill) :
             d \in ShapeData, f \in BOOLEAN}

ShapesInit ==
    \E r \in Revs, b \in GraphBounds, vp \in GraphRects :
        \E pa \in IF r = 1 THEN {"bool:false", "bool:true"} ELSE {"none", "square"} :
            ViewConstruct(r, b, vp, pa)

ShapesNext == \E sh \in Shapes, given \in BOOLEAN : ShapeDraw(sh, given)

SpecShapes == ShapesInit /\ [][ShapesNext]_vars

----------------------------------------------------------------------------
(* Parsing colours: parseColor(c) for a string, an array, anything else    *)

ColorInit ==
    /\ ViewIdle
    /\ SceneIdle
    /\ BufIdle
    /\ CacheIdle
    /\ nops = 0

ParseColor(c) ==
    /\ vlast' = ViewOp("parseColor", c, parseColor(c), NoPt)
    /\ UNCHANGED <<rev, worldBounds, viewport, preserveAspect, xTicks, yTicks>>
    /\ ViewFrame

\* "#" and 3 or 4 characters; "#" and 3 or 4 pairs; "#" and another length
HexChars == {"0", "F", "z", "-"}
HexPairs == {<<"f", "f">>, <<"2", "A">>, <<"0", "x">>, <<"-", "1">>, <<"z", "0">>}
HexStrings ==
    {<<"#", a, b, c>> : a \in HexChars, b \in HexChars, c \in HexChars}
    \cup {<<"#", a, b, c, "8">> : a \in HexChars, b \in HexChars, c \in HexChars}
    \cup {<<"#">> \o a \o b \o c : a \in HexPairs, b \in HexPairs, c \in HexPairs}
    \cup {<<"#">> \o a \o a \o b \o c : a \in HexPairs, b \in HexPairs, c \in HexPairs}
    \cup {<<"#">>, <<"#", "f", "f">>, <<"#", "f", "f", "f", "f", "f">>}
NamedStrings ==
    {Chars_white, Chars_red, Chars_yellow, <<" ", "R", "e", "d", " ">>,
     Chars_grey, <<"p", "i", "n", "k">>, <<>>, Chars_constructor, Chars_proto}
RgbNumbers == {<<"0">>, <<"3", "0", "0">>, <<"1", "2", ".", "5">>, <<"-", "7">>}
RgbAlphas == {<<"0", ".", "5">>, <<"2">>, <<"1", ".">>}
RgbStrings ==
    {<<"r", "g", "b", "(">> \o a \o <<",">> \o b \o <<",", " ">> \o c \o <<")">> :
        a \in RgbNumbers, b \in RgbNumbers, c \in RgbNumbers}
    \cup {<<"R", "G", "B", "A", "(">> \o a \o <<",">> \o a \o <<",">> \o b \o <<",">> \o c \o <<")">> :
             a \in RgbNumbers, b \in RgbNumbers, c \in RgbAlphas}
    \cup {Chars_redFill, Chars_yellowFill, <<"r", "g", "b">>,
          <<"r", "g", "b", "(", "1", ",", "2", ")">>,
          <<"r", "g", "b", "(", "1", ",", "2", ",", "3", ",", "4", ",", "5", ")">>}
ColorStrings == HexStrings \cup NamedStrings \cup RgbStrings
ArrayNumbers == {Num(-5), Num(0), Num(300), JS(0, 511)}
ColorArrays ==
    UNION {[1..n -> ArrayNumbers] : n \in 2..4} \cup {<<>>, <<Num(255), Num(128), Num(0), Num(255)>>}

ColorNext ==
    \/ \E str \in ColorStrings : ParseColor(Str(str))
    \/ \E arr \in ColorArrays : ParseColor(Arr(arr))
    \/ ParseColor([v |-> <<>>, kind |-> "number"])

SpecColor == ColorInit /\ [][ColorNext]_vars

----------------------------------------------------------------------------
(* The two computeTicks functions on their own *)

\* ends of ordinary ranges, and ranges far below 1
TickEnds == {Q(-3), Q(0), Norm(1, 2), Q(1), Q(3), Q(9), Q(10)}
TickRanges == (TickEnds \X TickEnds)
              \cup {<<Q(0), Pow10(-11)>>, <<Q(0), Pow10(-13)>>, <<RNeg(EPS), EPS>>}
TickCounts == 0..MaxTicks

TicksInit ==
    /\ vlast = ViewOp("none", NoPt, NoPt, NoPt)
    /\ rev = 2
    /\ worldBounds = Bounds(Q(0), Q(1), Q(0), Q(1))
    /\ viewport = Rect(Q(0), Q(0), Q(1), Q(1))
    /\ preserveAspect = "none"
    /\ xTicks = <<>> /\ yTicks = <<>>
    /\ nops = 0
    /\ GraphIdle
    /\ SceneIdle
    /\ BufIdle
    /\ CacheIdle

\* ViewportManager.computeTicks(min, max, numTicks)
ComputeTicks(min, max, n) ==
    /\ vlast' = ViewOp("computeTicks", <<min, max, n>>, computeTicks(min, max, n), NoPt)
    /\ UNCHANGED <<rev, worldBounds, viewport, preserveAspect, xTicks, yTicks>>
    /\ ViewFrame

\* Graph.computeTicks(min, max, n)
GraphComputeTicks(min, max, n) ==
    /\ vlast' = ViewOp("Graph.computeTicks", <<min, max, n>>,
                       Graph_computeTicks(min, max, n), NoPt)
    /\ UNCHANGED <<rev, worldBounds, viewport, preserveAspect, xTicks, yTicks>>
    /\ ViewFrame

TicksNext ==
    \/ \E r \in TickRanges, n \in TickCounts : ComputeTicks(r[1], r[2], n)
    \/ \E r \in TickRanges, n \in TickCounts : GraphComputeTicks(r[1], r[2], n)

SpecTicks == TicksInit /\ [][TicksNext]_vars

----------------------------------------------------------------------------
(* A page: one DynamicCanvasRenderer in a container, a Scene, and a        *)
(* SceneManager whose resize listener is attached.  Each handler of the    *)
(* page (a window resize, the debounce timer, an animation frame) and each *)
(* call from outside (startLoop, stopLoop) runs to its end before the next. *)

AppNow == Renderer(canvasDim, width, height, pixels, marks[1], marks[2], marks[3], shown, FALSE)
ManagerNow == Manager(rafId, pending, nextId, stopped, afterStop)

SetApp(b) ==
    /\ canvasDim' = b.cv
    /\ width' = b.w
    /\ height' = b.h
    /\ pixels' = b.px
    /\ marks' = <<b.cleared, b.drawn, b.first>>
    /\ shown' = b.sh

SetManager(m) ==
    /\ rafId' = m.id
    /\ pending' = m.reqs
    /\ nextId' = m.next
    /\ stopped' = m.stop
    /\ afterStop' = m.ran

SceneFrame == UNCHANGED <<last, prev, cacheVars, viewVars, rrev, scene, raster, line, nops>>

\* what slast records: the handler, its argument, whether it threw, the handler before
Handled(op, arg, threw) == <<op, arg, threw, slast[1]>>

\* new DynamicCanvasRenderer(containerDiv): the canvas element starts 300 x 150,
\* the constructor ends with resize()
Page(rv, rect, d, sc) ==
    /\ rrev = rv
    /\ container = rect
    /\ dpr = d
    /\ scene = sc
    /\ LET b == DynamicCanvasRenderer_resize(
                    Renderer(<<300, 150>>, 300, 150, <<>>, FALSE, FALSE, "none", <<>>, FALSE),
                    rv, rect, d)
       IN  /\ canvasDim = b.cv
           /\ width = b.w
           /\ height = b.h
           /\ pixels = b.px
           /\ marks = <<b.cleared, b.drawn, b.first>>
           /\ shown = b.sh
    /\ rafId = 0 /\ timer = FALSE /\ pending = {} /\ nextId = 1
    /\ stopped = FALSE /\ afterStop = {}
    /\ raster = NoKeyInfo
    /\ slast = <<"new", 0, FALSE, "none">>
    /\ line = NoLine
    /\ last = Op("none", NoNum, NoNum, Null, NoImage)
    /\ prev = <<>>
    /\ nops = 0
    /\ CacheIdle
    /\ ViewIdle

\* a call of startLoop(onFrame) from outside
StartLoop(onFrame) ==
    /\ nextId <= MaxFrames
    /\ SetManager(SceneManager_startLoop(ManagerNow, onFrame))
    /\ slast' = Handled("startLoop", onFrame, FALSE)
    /\ UNCHANGED <<width, height, pixels, canvasDim, marks, shown, container, dpr, timer>>
    /\ SceneFrame

\* a call of stopLoop() from outside, between two frames
StopLoop ==
    /\ SetManager(SceneManager_stopLoop(ManagerNow))
    /\ slast' = Handled("stopLoop", 0, FALSE)
    /\ UNCHANGED <<width, height, pixels, canvasDim, marks, shown, container, dpr, timer>>
    /\ SceneFrame

\* the browser runs a requested animation frame
Frame(req) ==
    /\ req \in pending
    /\ nextId < MaxFrames
    /\ LET o == loop([ManagerNow EXCEPT !.reqs = pending \ {req}], AppNow, scene, req[2])
       IN  /\ SetManager(o.m)
           /\ SetApp(o.a)
           /\ slast' = Handled("frame", req[2], o.a.threw)
    /\ UNCHANGED <<container, dpr, timer>>
    /\ SceneFrame

\* the window is resized: the container gets a new rect, the resize listeners
\* run, and the SceneManager's listener sets its debounce timer again
WindowResize(rect, d, win) ==
    /\ container' = rect
    /\ dpr' = d
    /\ SetApp(resizeListeners(AppNow, rrev, scene, rect, d, win))
    /\ timer' = TRUE
    /\ slast' = Handled("resize", 0, FALSE)
    /\ UNCHANGED <<rafId, pending, nextId, stopped, afterStop>>
    /\ SceneFrame

\* the debounce timer fires: resizeAll()
TimerFires ==
    /\ timer
    /\ timer' = FALSE
    /\ SetApp(SceneManager_resizeAll(AppNow, rrev, container, dpr))
    /\ slast' = Handled("resizeAll", 0, FALSE)
    /\ UNCHANGED <<rafId, pending, nextId, stopped, afterStop, container, dpr>>
    /\ SceneFrame

\* container rects: 2.5 x 1, 0 x 2
PageRects == {<<JS(0, 5), Num(1)>>, <<Num(0), Num(2)>>}
\* devicePixelRatio, in halves: missing, 1.5, 2
Ratios == {0, 3, 4}
\* window.innerWidth, window.innerHeight
WindowSizes == {<<Num(2), Num(1)>>, <<Num(0), Num(1)>>}
Scenes == {<<"dot">>, <<"hidden", "dot">>, <<"dot", "throws">>}
OnFrames == {"none", "animate", "stop", "restart"}

SceneInit == \E rv \in {1, 2}, rect \in PageRects, d \in Ratios, sc \in Scenes : Page(rv, rect, d, sc)

SceneNext ==
    \/ \E onFrame \in OnFrames : StartLoop(onFrame)
    \/ StopLoop
    \/ \E req \in pending : Frame(req)
    \/ \E rect \in PageRects, d \in Ratios :
          \E win \in IF rrev = 1 THEN WindowSizes ELSE {<<Num(2), Num(1)>>} : WindowResize(rect, d, win)
    \/ TimerFires

SpecScene == SceneInit /\ [][SceneNext]_vars

----------------------------------------------------------------------------
(* Claims about the PixelBuffer *)

InBuffer == {<<x, y>> : x \in 0..(width - 1), y \in 0..(height - 1)}
Now(q) == PixelAt(pixels, width, q[1], q[2])
Before(q) == PixelAt(prev, width, q[1], q[2])

\* what blending colour c over pixel d stores
Blended(d, c) ==
    LET o == blendRGBA(d[1], d[2], d[3], d[4], c[1], c[2], c[3], c[4])
    IN  <<RoundHalfUp(o[1]), RoundHalfUp(o[2]), RoundHalfUp(o[3]), RoundHalfUp(o[4])>>

\* the numeric position is outside [0,width) x [0,height)
Outside(x, y) == NumLT(x, 0) \/ NumGE(x, width) \/ NumLT(y, 0) \/ NumGE(y, height)

\* C2 (as claimed): putPixelBlend of an opaque source leaves the source colour,
\* putPixelBlend of a fully transparent source leaves the pixel as it was, for
\* every destination pixel, those of alpha 0 included.
C2_BlendIdentity ==
    (last.op = "putPixelBlend" /\ ~Outside(last.x, last.y)) =>
        LET q == <<ToInt32(last.x), ToInt32(last.y)>>
        IN  /\ last.c[4] = 255 => Now(q) = last.c
            /\ last.c[4] = 0 => Now(q) = Before(q)

\* C3 (as claimed): putPixel and putPixelBlend at a position outside the
\* buffer, fractional or of any magnitude, leave every byte unchanged.
C3_OutOfBoundsIgnored ==
    (last.op \in {"putPixel", "putPixelBlend"} /\ Outside(last.x, last.y)) =>
        pixels = prev

\* C4: after construction with any requested dimensions and any sequence of
\* resize, clear, putPixel, putPixelBlend and blit, width >= 1, height >= 1
\* and the byte array is width*height*4 long.
C4_BufferShape ==
    /\ width >= 1
    /\ height >= 1
    /\ Len(pixels) = width * height * 4

C4_Witness ==
    /\ last.op = "resize"
    /\ NumLT(last.x, 1)
    /\ last.y = JS(0, 3)
    /\ Len(prev) > 4

\* C5: after clear(c), c = [r,g,b,a] with channels in 0..255, every pixel
\* reads back as exactly c, whatever the buffer held before.
C5_ClearUniform ==
    (last.op = "clear" /\ last.c # Null) => \A q \in InBuffer : Now(q) = last.c

C5_Witness ==
    /\ last.op = "clear"
    /\ last.c # Null
    /\ last.c[4] >= 128
    /\ last.c[1] # last.c[4]
    /\ Len(pixels) > 4
    /\ \E q \in InBuffer : Before(q) # <<0, 0, 0, 0>> /\ Before(q) # last.c

\* x <= n and x >= n for the number x = JS(k, h) and an integer n
NumLE(x, n) == x.k < 0 \/ (x.k = 0 /\ x.h <= 2 * n)

\* C6 (as claimed): blit(src, dx, dy) changes only destination pixels of the
\* placed source rectangle, dx <= tx < dx + src.width, dy <= ty < dy + src.height
\* (so nothing at all when the rectangle misses the buffer).
C6_BlitFrame ==
    last.op = "blit" =>
        \A q \in InBuffer :
            Now(q) # Before(q) =>
                /\ NumLE(last.x, q[1]) /\ ~NumLE(last.x, q[1] - last.src.w)
                /\ NumLE(last.y, q[2]) /\ ~NumLE(last.y, q[2] - last.src.h)

----------------------------------------------------------------------------
(* Claims about the rasterizers *)

InCircle(q, ctr, r) ==
    (2 * q[1] - ctr[1]) * (2 * q[1] - ctr[1])
    + (2 * q[2] - ctr[2]) * (2 * q[2] - ctr[2]) <= r * r

\* C9 (as claimed): fillCircle with r > 0 blends the colour into exactly the
\* pixels of the buffer with (x - c.x)^2 + (y - c.y)^2 <= r^2 and leaves every
\* other pixel unchanged.
C9_FillCircleDisc ==
    (last.op = "fillCircle" /\ last.r > 0) =>
        \A q \in InBuffer :
            Now(q) = IF InCircle(q, last.pts[1], last.r)
                     THEN Blended(Before(q), last.c) ELSE Before(q)

\* C10 (as claimed): a zero-length rawLine/drawLine, a fillCircle of radius
\* <= 0 and a fillPolygon of fewer than 3 points leave every pixel unchanged.
C10_DegenerateNoOp ==
    (\/ last.op \in {"rawLine", "drawLine"} /\ last.pts[1] = last.pts[2]
     \/ last.op = "fillCircle" /\ last.r <= 0
     \/ last.op = "fillPolygon" /\ Len(last.pts) < 3) =>
        pixels = prev

\* the polygon is convex (every turn strict and to the same side), its
\* vertices are pixel corners of the buffer
ConvexInside(pts) ==
    LET n == Len(pts)
        at(i) == pts[((i - 1) % n) + 1]
        turn(i) == Cross(at(i), at(i + 1), at(i + 2))
    IN  /\ n >= 3
        /\ \A i \in 1..n : /\ pts[i][1] % 2 = 0 /\ pts[i][2] % 2 = 0
                           /\ pts[i][1] >= 0 /\ pts[i][1] <= 2 * (width - 1)
                           /\ pts[i][2] >= 0 /\ pts[i][2] <= 2 * (height - 1)
        /\ (\A i \in 1..n : turn(i) > 0) \/ (\A i \in 1..n : turn(i) < 0)

\* 8 times the area (coordinates are in halves), by the shoelace formula
RECURSIVE shoelace(_, _)
shoelace(pts, i) ==
    IF i > Len(pts) THEN 0
    ELSE LET p == pts[i]
             q == pts[(i % Len(pts)) + 1]
         IN  p[1] * q[2] - q[1] * p[2] + shoelace(pts, i + 1)
Area8(pts) == Abs(shoelace(pts, 1))

\* floor(sqrt(v))
ISqrt(v) == CHOOSE r \in 0..v : r * r <= v /\ (r + 1) * (r + 1) > v
\* the perimeter, taken from below to 1/100 of a half: 100 * 2 * perimeter
RECURSIVE perimeter200(_, _)
perimeter200(pts, i) ==
    IF i > Len(pts) THEN 0
    ELSE LET p == pts[i]
             q == pts[(i % Len(pts)) + 1]
             d2 == (p[1] - q[1]) * (p[1] - q[1]) + (p[2] - q[2]) * (p[2] - q[2])
         IN  ISqrt(10000 * d2) + perimeter200(pts, i + 1)

\* the pixels the last operation blended, on a buffer that was blank
BlendedPixels == {q \in InBuffer : Now(q) # Before(q)}
OnBlank == \A i \in 1..Len(prev) : prev[i] = 0

\* C17: for a simple convex polygon with integer vertices inside the buffer,
\* the number of pixels fillPolygon blends differs from the area of the polygon
\* by at most its perimeter (here: by at most a lower bound of the perimeter).
C17_PolygonCount ==
    (last.op = "fillPolygon" /\ OnBlank /\ ConvexInside(last.pts)) =>
        100 * Abs(8 * Cardinality(BlendedPixels) - Area8(last.pts))
            <= 4 * perimeter200(last.pts, 1)

\* the triangle (0,0), (1,3), (3,1) of area 4 has been filled, into more
\* pixels than its area
C17_Witness ==
    /\ last.op = "fillPolygon" /\ OnBlank /\ ConvexInside(last.pts)
    /\ last.pts = << <<0, 0>>, <<2, 6>>, <<6, 2>> >>
    /\ Cardinality(BlendedPixels) > 4

----------------------------------------------------------------------------
(* Claims about the ViewportManager *)

\* C1: with xMax > xMin, yMax > yMin and a rectangle of positive size, under
\* every aspect policy, canvasToWorld(worldToCanvas(x, y)) = (x, y) exactly,
\* bounds, rectangle and policy being the same in both calls.
C1_RoundTrip ==
    (vlast.op = "canvasToWorld" /\ vlast.from # NoPt /\ PositiveSpans /\ PositiveRect) =>
        vlast.out = vlast.from

C1_Witness ==
    /\ vlast.op = "canvasToWorld"
    /\ vlast.from = V2(Norm(1, 3), Norm(-7, 2))
    /\ vlast.out = vlast.from
    /\ vlast.in # vlast.from
    /\ PositiveSpans /\ PositiveRect
    /\ preserveAspect = "fit"
    /\ worldBounds = Bounds(Norm(1, 2), Q(3), Q(-1), Q(4))
    /\ viewport = Rect(Q(10), Q(5), Q(30), Q(20))

UniformPolicy == preserveAspect \in {"bool:true", "square", "fit"}
StretchPolicy == preserveAspect \in {"bool:false", "none"}
XRange == RSub(worldBounds.xMax, worldBounds.xMin)
YRange == RSub(worldBounds.yMax, worldBounds.yMin)
MinScale == RMin(RDiv(viewport.width, XRange), RDiv(viewport.height, YRange))
MarginX == RDiv(RSub(viewport.width, RMul(MinScale, XRange)), Q(2))
MarginY == RDiv(RSub(viewport.height, RMul(MinScale, YRange)), Q(2))

\* C11: under a uniform policy (true, "square", "fit") with positive spans and
\* a rectangle of positive size, scale is min(width/xRange, height/yRange) on
\* both axes in either implementation, and worldToCanvas puts the corners of
\* the world rectangle inside the viewport rectangle with equal margins on
\* opposite sides.
C11_UniformFit ==
    (UniformPolicy /\ PositiveSpans /\ PositiveRect) =>
        /\ ~RLT(MarginX, Q(0)) /\ ~RLT(MarginY, Q(0))
        /\ vlast.op = "scale" => vlast.out = V2(MinScale, MinScale)
        /\ (vlast.op = "worldToCanvas" /\ vlast.in = TopLeft) =>
               vlast.out = V2(RAdd(viewport.x, MarginX), RAdd(viewport.y, MarginY))
        /\ (vlast.op = "worldToCanvas" /\ vlast.in = BottomRight) =>
               vlast.out = V2(RSub(RAdd(viewport.x, viewport.width), MarginX),
                              RSub(RAdd(viewport.y, viewport.height), MarginY))

C11_Witness ==
    /\ UniformPolicy /\ PositiveSpans /\ PositiveRect
    /\ rev = 1
    /\ vlast.op = "worldToCanvas" /\ vlast.in = BottomRight
    /\ RGT(MarginY, Q(0))
    /\ vlast.out = V2(RAdd(viewport.x, viewport.width),
                      RSub(RAdd(viewport.y, viewport.height), MarginY))

\* C12: under the stretch policy (false or "none"), for every rectangle and
\* bounds, worldToCanvas(x, y) = (vp.x + (x - xMin) * vp.width / xRange,
\* vp.y + (yMax - y) * vp.height / yRange).
C12_StretchFormula ==
    (StretchPolicy /\ vlast.op = "worldToCanvas") =>
        vlast.out = V2(RAdd(viewport.x, RMul(RSub(vlast.in[1], worldBounds.xMin),
                                             RDiv(viewport.width, XRange))),
                       RAdd(viewport.y, RMul(RSub(worldBounds.yMax, vlast.in[2]),
                                             RDiv(viewport.height, YRange))))


----------------------------------------------------------------------------
(* Claims about the tick functions *)

TicksCalled ==
    /\ vlast.op \in {"computeTicks", "Graph.computeTicks"}
    /\ IsFinite(vlast.in[1]) /\ IsFinite(vlast.in[2])
    /\ RLT(vlast.in[1], vlast.in[2])
    /\ vlast.in[3] >= 1

\* C13: for finite min < max and n >= 1, computeTicks(min, max, n) returns a
\* strictly increasing sequence of at least 2 elements.
C13_TicksIncreasing ==
    TicksCalled =>
        /\ Len(vlast.out) >= 2
        /\ \A i \in 1..(Len(vlast.out) - 1) : RLT(vlast.out[i], vlast.out[i + 1])

\* the smallest value of the form {1, 2, 5} * 10^k that is not below raw > 0
NiceAtLeast(raw) ==
    LET e == FloorLog10(raw)
        f == RDiv(raw, Pow10(e))
    IN  RMul(IF RLE(f, Q(1)) THEN Q(1) ELSE IF RLE(f, Q(2)) THEN Q(2)
             ELSE IF RLE(f, Q(5)) THEN Q(5) ELSE Q(10), Pow10(e))

\* the multiples m * step with min <= m * step <= max, in increasing order
MultiplesWithin(min, max, step) ==
    LET lo == RCeil(RDiv(min, step))
        hi == RFloor(RDiv(max, step))
        cnt == RAdd(RSub(hi, lo), Q(1))
    IN  IF RLT(cnt, Q(1)) THEN <<>>
        ELSE [i \in 1..IntOf(cnt) |-> RMul(RAdd(lo, Q(i - 1)), step)]

\* C14: for finite min < max and numTicks >= 1 the ticks are exactly the
\* multiples m * step with min <= m * step <= max, step being the smallest
\* {1, 2, 5} * 10^k that is not below (max - min) / numTicks.
C14_TicksAreMultiples ==
    TicksCalled =>
        vlast.out = MultiplesWithin(vlast.in[1], vlast.in[2],
                        NiceAtLeast(RDiv(RSub(vlast.in[2], vlast.in[1]), Q(vlast.in[3]))))

----------------------------------------------------------------------------
(* Claims about the world bounds *)

\* C15: after construction and after any sequence of updateWorld(bounds) and
\* fitToBounds(list, padding), whatever the arguments (inverted, zero-width or
\* non-finite bounds, empty lists, negative padding), the stored bounds satisfy
\* xMax > xMin and yMax > yMin.
C15_ProperSpans ==
    rev = 2 => /\ RGT(worldBounds.xMax, worldBounds.xMin)
               /\ RGT(worldBounds.yMax, worldBounds.yMin)

\* fitToBounds has just committed bounds under a square policy, the padding
\* being non-negative
SquareFitted ==
    /\ rev = 2
    /\ vlast.op = "fitToBounds"
    /\ vlast.out # Null
    /\ preserveAspect \in {"bool:true", "square"}
    /\ RLE(Q(0), vlast.in[2])

----------------------------------------------------------------------------
(* Claims about the Graph *)

StageRank(st) ==
    CASE st = "grid" -> 1 [] st = "axis" -> 2 [] st = "tick" -> 3
      [] st = "label" -> 4 [] st = "border" -> 5

\* C18: within one Graph.draw the operations are issued in stage order (all
\* gridlines, then the axis lines, then all tick marks, then all numeric
\* labels, then the border), and the border is issued whenever drawBorder is set.
C18_StageOrder ==
    vlast.op = "Graph.draw" =>
        /\ \A i \in 1..Len(issued) : \A j \in i..Len(issued) :
              StageRank(issued[i].stage) <= StageRank(issued[j].stage)
        /\ graph.drawBorder => \E i \in 1..Len(issued) : issued[i].stage = "border"

----------------------------------------------------------------------------
(* Claims about the TextCache *)

Overflow ==
    /\ clast.op = "set"
    /\ ~mapHas(clast.before, clast.key)
    /\ Len(clast.before) = capacity
    /\ capacity >= 1

Removed == mapKeys(clast.before) \ mapKeys(map)

\* the entry whose most recent touch (a set, or a get that hit) is the oldest
Oldest == CHOOSE k \in mapKeys(clast.before) :
              \A j \in mapKeys(clast.before) : clast.stamp[k] <= clast.stamp[j]

\* k was read by get after every other key was last touched
ReadLast(k) ==
    /\ k \in mapKeys(clast.before)
    /\ clast.how[k] = "get"
    /\ \A j \in mapKeys(clast.before) \ {k} : clast.stamp[j] < clast.stamp[k]

EvictsOldest == Removed = {Oldest} /\ mapHas(map, clast.key) /\ Len(map) = capacity

\* C7 (as claimed): at capacity c >= 1 a set of a new key removes exactly the
\* least recently touched entry, and a key read by get after all other keys
\* were last touched is still present after that overflow.
C7_LRU_AsClaimed ==
    Overflow => (EvictsOldest /\ \A k \in Keys : ReadLast(k) => mapHas(map, k))

\* C7 (amended): ... and, when c >= 2, a key read by get after all other keys
\* were last touched is still present after that overflow.
C7_LRU ==
    Overflow => (EvictsOldest /\ (capacity >= 2 => \A k \in Keys : ReadLast(k) => mapHas(map, k)))

C7_Witness ==
    /\ Overflow
    /\ capacity >= 2
    /\ \E k \in Keys : ReadLast(k) /\ mapHas(map, k) /\ map[1][1] = k

C19_MissingGraphSignals ==
    vlast.op = "draw" /\ ~vlast.in.graph => vlast.out # "returned"

IsByte(v) == \E k \in 0..255 : v = Q(k)

\* C20: whatever string or numeric array it is given, parseColor returns the
\* null sentinel or a tuple of exactly four integers, each in 0..255.
C20_ParseColorRange ==
    vlast.op = "parseColor" /\ vlast.in.kind \in {"string", "array"}
        => \/ vlast.out = Null
           \/ Len(vlast.out) = 4 /\ \A i \in 1..4 : IsByte(vlast.out[i])

----------------------------------------------------------------------------
(* Claims about blit and the rasterizers' blending *)

\* the pixel of an ImageData at (sx, sy)
SourcePixel(src, sx, sy) ==
    LET i == (sy * src.w + sx) * 4
    IN  <<Load(src.data, i), Load(src.data, i + 1), Load(src.data, i + 2), Load(src.data, i + 3)>>

\* the destination pixels a blit of src at offset (dx, dy) reaches
BlitTargets(src, dx, dy) ==
    {q \in InBuffer : /\ q[1] - dx >= 0 /\ q[1] - dx < src.w
                      /\ q[2] - dy >= 0 /\ q[2] - dy < src.h}

\* C22: for every source pixel and every destination pixel, the four channel
\* values blit writes are those putPixelBlend would write for that source
\* colour over that destination (source-over, the alpha channel included).
C22_BlitIsSourceOver ==
    last.op = "blit" =>
        \A q \in BlitTargets(last.src, ToInt32(last.x), ToInt32(last.y)) :
            Now(q) = Blended(Before(q),
                             SourcePixel(last.src, q[1] - ToInt32(last.x), q[2] - ToInt32(last.y)))

\* the distance in pixels, along the longer axis, between two positions
Chebyshev(a, b) == Max(Abs(a[1] - b[1]), Abs(a[2] - b[2]))

\* C23: for any two endpoints with finite coordinates rawLine terminates, and
\* blends exactly max(|x1 - x0|, |y1 - y0|) + 1 pairwise distinct pixels, the
\* first round(p0), the last round(p1), each once.  Each iteration moves by at
\* most one pixel along each axis, so the claim says that every iteration
\* brings the position one pixel nearer to round(p1): before iteration n + 1 it
\* is max(..) - n pixels away, and the loop ends after max(..) + 1 blends.
C23_LineVisits ==
    LET from == <<RoundH(last.pts[1][1]), RoundH(last.pts[1][2])>>
        to   == <<RoundH(last.pts[2][1]), RoundH(last.pts[2][2])>>
    IN  /\ line.pc = "loop" =>
            /\ line.n = 0 => <<line.x0, line.y0>> = from
            /\ Chebyshev(<<line.x0, line.y0>>, to) = Chebyshev(from, to) - line.n
        /\ line.pc = "done" =>
            /\ <<line.x0, line.y0>> = to
            /\ line.n = Chebyshev(from, to) + 1

\* C24: for two points and width <= 1, drawLine (strokeShape) draws one line,
\* from the first point to the second: the buffer is what a single
\* rawLine(p0, p1) leaves, every pixel of the segment blended once.
C24_OneLineDrawn ==
    last.op = "drawLine" /\ last.r <= 1 =>
        pixels = rawLine(prev, width, height, last.pts[1], last.pts[2], last.c)

\* the pixels of the half-open spans [c[2k], c[2k+1]) of the scanlines of pts
HalfOpenPixels(pts) ==
    LET es == polyEdges(pts)
        inSpan(x, cs) ==
            \E j \in 1..(Len(cs) \div 2) :
                FracLE(cs[2 * j - 1], <<x, 1>>) /\ ~FracLE(cs[2 * j], <<x, 1>>)
    IN  {q \in InBuffer : inSpan(q[1], scanCrossings(es, q[2]))}

\* C25: on every scanline fillPolygon fills, and for every pair of crossings,
\* pixel x is blended exactly when crossings[2k] <= x < crossings[2k+1], so
\* that polygons sharing an edge blend no pixel twice.
C25_HalfOpenSpans ==
    last.op = "fillPolygon" /\ OnBlank => BlendedPixels = HalfOpenPixels(last.pts)

\* every pixel of the bytes p has alpha 255
Opaque(p) == \A i \in 1..Len(p) : i % 4 = 0 => p[i] = 255

\* C28: from a buffer cleared to an opaque colour, after any sequence of
\* putPixelBlend, rawLine, fillCircle, fillPolygon, blit and drawText calls,
\* with translucent colours and bitmaps too, every pixel's alpha is still 255:
\* none of these operations takes an opaque buffer to one that is not.
C28_OpaqueStaysOpaque ==
    (last.op \in {"putPixelBlend", "blit"} /\ Opaque(prev)) => Opaque(pixels)

----------------------------------------------------------------------------
(* Claims about drawText *)

TextCalls == {i \in 1..Len(raster) : raster[i][2] # "resize"}
\* the triple whose rasterization the cache holds under the key of triple t,
\* after call i: that of the last miss with that key
MadeFor(t, i) ==
    LET made == {j \in 1..i : /\ raster[j][2] = "miss"
                              /\ cacheKey(raster[j][1][1], raster[j][1][2], raster[j][1][3])
                                     = cacheKey(t[1], t[2], t[3])}
    IN  raster[CHOOSE j \in made : \A k \in made : k <= j][1]

\* C26: drawText calls whose (text, font, color) differ never resolve to the
\* same cache entry, also for strings that contain "|": the bitmap a call
\* blits was rasterized for exactly the triple it asks for.
C26_OwnBitmap == \A i \in TextCalls : MadeFor(raster[i][1], i) = raster[i][1]

\* C27: while the distinct triples drawn are no more than the capacity of the
\* cache, each triple is rasterized at most once, in one frame, in later
\* frames, and across resizes of the buffer.
C27_RasterizedOnce ==
    Cardinality({raster[i][1] : i \in TextCalls}) <= capacity =>
        \A i, j \in TextCalls :
            (raster[i][1] = raster[j][1] /\ raster[i][2] = "miss" /\ raster[j][2] = "miss") => i = j

\* a triple drawn, the buffer resized, the triple drawn again from the cache
C27_Witness ==
    /\ Len(raster) = 3
    /\ raster[1][2] = "miss" /\ raster[2][2] = "resize" /\ raster[3] = <<raster[1][1], "hit">>
    /\ capacity = 1
    /\ last.op = "drawText" /\ last.src = map[1][2]
    /\ pixels # prev

----------------------------------------------------------------------------
(* Claims about the page *)

C29_StoppedLoopIsIdle == afterStop = {}

\* C30: after DynamicCanvasRenderer.resize(), for any container size and any
\* devicePixelRatio >= 1, the canvas element is as wide and as high, in
\* pixels, as the PixelBuffer.
C30_CanvasIsBufferSized ==
    slast[1] \in {"new", "resize", "resizeAll"} => canvasDim = <<width, height>>

====
